---------------------------- MODULE Spec2Model ----------------------------
(***************************************************************************)
(* A model of IceFireDB-SQLProxy/pkg/p2p/p2p.go: node construction         *)
(* (NewP2P, setupHost, setupKadDHT, bootstrapDHT, setupPubSub), the two    *)
(* discovery paths (AdvertiseConnect, AnnounceConnect) and the peer        *)
(* connector (handlePeerDiscovery).                                        *)
(*                                                                         *)
(* The libp2p, DHT and pubsub libraries are the environment: each call     *)
(* into them succeeds or fails nondeterministically, and the producer of   *)
(* a peer channel sends and closes as it likes.                            *)
(*                                                                         *)
(* The module also models two parts of the vendored pion/webrtc stats.go:  *)
(* statsReportCollector and UnmarshalStatsJSON.                            *)
(***************************************************************************)
EXTENDS Integers, Sequences, FiniteSets, TLC

VARIABLES
    proc,                 \* "running" | "exited" (os.Exit via Fatalln) | "panicked"
    cause,                \* the step that ended the process, or "none"
    pc,                   \* position of the goroutine that runs NewP2P and then the discovery calls
    steps,                \* the library calls of NewP2P that have returned, in order
    node,                 \* "nil" until NewP2P returns its *P2P, then "P2P"
    Host,                 \* "nil" | "host"
    KadDHT,               \* "nil" | "created" | "bootstrapped"
    Discovery,            \* "nil" | "routing"
    PubSub,               \* "nil" | "gossipsub"
    bootPeers,            \* dht.DefaultBootstrapPeers: a sequence of peer kinds
    idx,                  \* number of loop iterations of bootstrapDHT done
    wg,                   \* the WaitGroup counter
    connectedbootpeers,   \* int32, atomically incremented
    totalbootpeers,       \* int32, incremented by the loop
    task,                 \* task[i]: position of the goroutine spawned for bootPeers[i]
    reported,             \* the counts logged at the end of bootstrapDHT, or <<>>
    err,                  \* the err variable of the running function: "nil" or the call that failed
    peerchan,             \* the peerchan variable of the running call: 0 (nil) or a channel
    events,               \* what the discovery calls did and logged, in order
    chans,                \* the peer channels the queries returned
    connectors,           \* the handlePeerDiscovery goroutines started
    dialed,               \* dialed[i]: nodehost.Connect calls bootstrapDHT made to bootPeers[i]
    Ctx,                  \* the context in P2P.Ctx: "live" | "done"
    sha,                  \* sha256.Sum256 as a table from names to digests
    namestring,           \* the argument of the last generateCID call
    cidvalue,             \* what it returned: NoCid before any call
    issued,               \* the generateCID calls that returned: <<name, identifier>>
    service,              \* P2P.service: the serviceName NewP2P was called with
    keys,                 \* the key each announce and each query was made under, in order
    nodeHostIP,           \* the bind IP NewP2P was called with
    nodeHostPort,         \* the bind port NewP2P was called with
    listen,               \* the addresses passed to libp2p.ListenAddrStrings, or <<>>
    callers,              \* callers[t]: position of the collector's caller t and the id it collects
    collectingGroup,      \* the counter of statsReportCollector.collectingGroup
    report,               \* statsReportCollector.report: a map from ids to stats
    mux,                  \* statsReportCollector.mux: "unlocked" | "Collect" | "Ready"
    readyPc,              \* position of the goroutine that calls Ready
    returned,             \* what Ready returned
    writes,               \* the writes to the report, in order: <<id, stats>>
    b,                    \* the argument of UnmarshalStatsJSON
    ret                   \* what UnmarshalStatsJSON returned

vars == <<proc, cause, pc, steps, node, Host, KadDHT, Discovery, PubSub,
          bootPeers, idx, wg, connectedbootpeers, totalbootpeers, task,
          reported, err, peerchan, events, chans, connectors, dialed,
          Ctx, sha, namestring, cidvalue, issued, service, keys,
          nodeHostIP, nodeHostPort, listen,
          callers, collectingGroup, report, mux, readyPc, returned, writes,
          b, ret>>

startupVars == <<steps, node, Host, KadDHT, Discovery, PubSub>>
joinerVars == <<bootPeers, idx, wg, connectedbootpeers, totalbootpeers, task,
                reported, dialed>>
cidVars == <<sha, namestring, cidvalue, issued, service>>
discoveryVars == <<peerchan, events, chans, connectors, Ctx, cidVars, keys>>
hostVars == <<nodeHostIP, nodeHostPort, listen>>
collectorVars == <<callers, collectingGroup, report, mux, readyPc, returned, writes>>
unmarshalVars == <<b, ret>>
statsVars == <<collectorVars, unmarshalVars>>

(***************************************************************************)
(* Bounds                                                                  *)
(***************************************************************************)
MaxBootPeers == 3
\* discovery calls made on the node
MaxCalls == 1
\* peer address infos the producers deliver, over all channels
MaxDelivered == 3
\* buffer size of a peer channel
ChanCap == 1

\* A bootstrap multiaddr is well formed and reachable ("ok"), well formed and
\* unreachable ("down"), or fails peer.AddrInfoFromP2pAddr ("bad").
PeerKinds == {"ok", "down", "bad"}

BootPeerSets == UNION {[1..n -> PeerKinds] : n \in 0..MaxBootPeers}

\* the largest int32
MaxInt32 == 2147483647

\* int32 increment, wrapping as Go's does
IncInt32(x) == IF x = MaxInt32 THEN -MaxInt32 - 1 ELSE x + 1

RECURSIVE CountOf(_, _)
CountOf(s, x) ==
    IF s = <<>> THEN 0
    ELSE (IF s[1] = x THEN 1 ELSE 0) + CountOf(Tail(s), x)

(***************************************************************************)
(* Process termination                                                     *)
(***************************************************************************)
\* logrus Fatalln: the entry is logged, then os.Exit(1)
Fatalln(why) ==
    /\ proc' = "exited"
    /\ cause' = why

\* an unrecovered panic ends the process
Panic(why) ==
    /\ proc' = "panicked"
    /\ cause' = why

(***************************************************************************)
(* setupHost                                                               *)
(***************************************************************************)
\* the bind IPs and ports NewP2P is called with
IPs == {"", "0.0.0.0", "127.0.0.1"}
Ports == {-1, 0, 80, 4001}

\* the decimal digits
DigitChars == <<"0", "1", "2", "3", "4", "5", "6", "7", "8", "9">>

\* a natural number in decimal, most significant digit first
RECURSIVE FmtNat(_)
FmtNat(n) ==
    IF n < 10 THEN DigitChars[n + 1]
    ELSE FmtNat(n \div 10) \o DigitChars[(n % 10) + 1]

\* the verb %d applied to an int
FmtInt(n) == IF n < 0 THEN "-" \o FmtNat(-n) ELSE FmtNat(n)

\* fmt.Sprintf over a format given as its literal pieces and its verbs:
\* each verb consumes the next argument
RECURSIVE Sprintf(_, _)
Sprintf(format, args) ==
    IF format = <<>> THEN ""
    ELSE IF format[1] = "%s"
         THEN args[1] \o Sprintf(Tail(format), Tail(args))
    ELSE IF format[1] = "%d"
         THEN FmtInt(args[1]) \o Sprintf(Tail(format), Tail(args))
    ELSE format[1] \o Sprintf(Tail(format), args)

\* "/ip4/%s/tcp/%d" and "/ip4/%s/udp/%d/quic-v1"
TcpFormat == <<"/ip4/", "%s", "/tcp/", "%d">>
QuicFormat == <<"/ip4/", "%s", "/udp/", "%d", "/quic-v1">>

\* the bind address of the node of the other specifications
BindIP == "0.0.0.0"
BindPort == 4001

\* the arguments of libp2p.ListenAddrStrings
ListenAddrStrings(ip, port) ==
    <<Sprintf(TcpFormat, <<ip, port>>), Sprintf(QuicFormat, <<ip, port>>)>>

\* NewP2P line 64-67: take the background context, call setupHost, which
\* first generates the Ed25519 key pair.
GenerateKeyPair ==
    /\ proc = "running" /\ pc = "start"
    /\ steps' = Append(steps, "GenerateKeyPair")
    /\ \E ok \in BOOLEAN :
          IF ok THEN /\ err' = "nil"
                     /\ pc' = "connmgr"
                     /\ UNCHANGED <<proc, cause>>
                ELSE /\ err' = "GenerateKeyPair"
                     /\ Fatalln("GenerateKeyPair")
                     /\ UNCHANGED pc
    /\ UNCHANGED <<node, Host, KadDHT, Discovery, PubSub>>
    /\ UNCHANGED <<joinerVars, discoveryVars, hostVars, statsVars>>

NewConnManager ==
    /\ proc = "running" /\ pc = "connmgr"
    /\ steps' = Append(steps, "NewConnManager")
    /\ \E ok \in BOOLEAN :
          IF ok THEN /\ err' = "nil"
                     /\ pc' = "libp2p.New"
                     /\ UNCHANGED <<proc, cause>>
                ELSE /\ err' = "NewConnManager"
                     /\ Panic("NewConnManager")
                     /\ UNCHANGED pc
    /\ UNCHANGED <<node, Host, KadDHT, Discovery, PubSub>>
    /\ UNCHANGED <<joinerVars, discoveryVars, hostVars, statsVars>>

\* a libp2p.New that is not given the Routing option: no callback runs
Libp2pNewNoRouting ==
    /\ proc = "running" /\ pc = "libp2p.New"
    /\ \E ok \in BOOLEAN :
          IF ok THEN /\ pc' = "libp2p.New.rest"
                     /\ UNCHANGED <<proc, cause, err, steps>>
                ELSE /\ err' = "libp2p.New"
                     /\ steps' = Append(steps, "libp2p.New")
                     /\ Panic("libp2p.New")
                     /\ UNCHANGED pc
    /\ UNCHANGED <<node, Host, KadDHT, Discovery, PubSub>>
    /\ listen' = ListenAddrStrings(nodeHostIP, nodeHostPort)
    /\ UNCHANGED <<joinerVars, discoveryVars, nodeHostIP, nodeHostPort, statsVars>>

\* a libp2p.New that is given the TCP address only
Libp2pNewTcpOnly ==
    /\ proc = "running" /\ pc = "libp2p.New"
    /\ \E ok \in BOOLEAN :
          IF ok THEN /\ pc' = "setupKadDHT"
                     /\ UNCHANGED <<proc, cause, err, steps>>
                ELSE /\ err' = "libp2p.New"
                     /\ steps' = Append(steps, "libp2p.New")
                     /\ Panic("libp2p.New")
                     /\ UNCHANGED pc
    /\ UNCHANGED <<node, Host, KadDHT, Discovery, PubSub>>
    /\ listen' = <<Sprintf(TcpFormat, <<nodeHostIP, nodeHostPort>>)>>
    /\ UNCHANGED <<joinerVars, discoveryVars, nodeHostIP, nodeHostPort, statsVars>>

\* The listen addresses are formatted and logged, then libp2p.New runs up
\* to the point where it applies the Routing option. It may
\* fail before that (a listen address that does not parse, for example),
\* and setupHost panics.
Libp2pNew ==
    /\ proc = "running" /\ pc = "libp2p.New"
    /\ \E ok \in BOOLEAN :
          IF ok THEN /\ pc' = "setupKadDHT"
                     /\ UNCHANGED <<proc, cause, err, steps>>
                ELSE /\ err' = "libp2p.New"
                     /\ steps' = Append(steps, "libp2p.New")
                     /\ Panic("libp2p.New")
                     /\ UNCHANGED pc
    /\ UNCHANGED <<node, Host, KadDHT, Discovery, PubSub>>
    /\ listen' = ListenAddrStrings(nodeHostIP, nodeHostPort)
    /\ UNCHANGED <<joinerVars, discoveryVars, nodeHostIP, nodeHostPort, statsVars>>

\* The Routing callback: idht, err = setupKadDHT(ctx, h)
setupKadDHT ==
    /\ proc = "running" /\ pc = "setupKadDHT"
    /\ steps' = Append(steps, "dht.New")
    /\ \E ok \in BOOLEAN :
          IF ok THEN /\ err' = "nil"
                     /\ pc' = "libp2p.New.rest"
                     /\ KadDHT' = "created"
                     /\ UNCHANGED <<proc, cause>>
                ELSE /\ err' = "dht.New"
                     /\ Fatalln("dht.New")
                     /\ UNCHANGED <<pc, KadDHT>>
    /\ UNCHANGED <<node, Host, Discovery, PubSub>>
    /\ UNCHANGED <<joinerVars, discoveryVars, hostVars, statsVars>>

\* The rest of libp2p.New (listening, NAT service, relay), then
\* setupHost returns h2 and idht.
Libp2pNewRest ==
    /\ proc = "running" /\ pc = "libp2p.New.rest"
    /\ steps' = Append(steps, "libp2p.New")
    /\ \E ok \in BOOLEAN :
          IF ok THEN /\ err' = "nil"
                     /\ pc' = "Bootstrap"
                     /\ Host' = "host"
                     /\ UNCHANGED <<proc, cause>>
                ELSE /\ err' = "libp2p.New"
                     /\ Panic("libp2p.New")
                     /\ UNCHANGED <<pc, Host>>
    /\ UNCHANGED <<node, KadDHT, Discovery, PubSub>>
    /\ UNCHANGED <<joinerVars, discoveryVars, hostVars, statsVars>>

(***************************************************************************)
(* bootstrapDHT                                                            *)
(***************************************************************************)
\* Bootstrap with its error logged and not escalated
BootstrapNotFatal ==
    /\ proc = "running" /\ pc = "Bootstrap"
    /\ steps' = Append(steps, "Bootstrap")
    /\ \E ok \in BOOLEAN :
          /\ err' = IF ok THEN "nil" ELSE "Bootstrap"
          /\ KadDHT' = IF ok THEN "bootstrapped" ELSE KadDHT
    /\ pc' = "loop"
    /\ UNCHANGED <<proc, cause, node, Host, Discovery, PubSub>>
    /\ UNCHANGED <<joinerVars, discoveryVars, hostVars, statsVars>>

\* kaddht.Bootstrap(ctx), fatal on error
Bootstrap ==
    /\ proc = "running" /\ pc = "Bootstrap"
    /\ steps' = Append(steps, "Bootstrap")
    /\ \E ok \in BOOLEAN :
          IF ok THEN /\ err' = "nil"
                     /\ pc' = "loop"
                     /\ KadDHT' = "bootstrapped"
                     /\ UNCHANGED <<proc, cause>>
                ELSE /\ err' = "Bootstrap"
                     /\ Fatalln("Bootstrap")
                     /\ UNCHANGED <<pc, KadDHT>>
    /\ UNCHANGED <<node, Host, Discovery, PubSub>>
    /\ UNCHANGED <<joinerVars, discoveryVars, hostVars, statsVars>>

\* peerinfo, _ := peer.AddrInfoFromP2pAddr(peeraddr): nil when the address
\* does not parse; the error is dropped.
AddrInfoFromP2pAddr(kind) == IF kind = "bad" THEN "nil" ELSE "info"

\* One iteration of the loop over dht.DefaultBootstrapPeers: parse, wg.Add(1),
\* totalbootpeers++, go func.
SpawnTask ==
    /\ proc = "running" /\ pc = "loop"
    /\ idx < Len(bootPeers)
    /\ idx' = idx + 1
    /\ wg' = wg + 1
    /\ totalbootpeers' = IncInt32(totalbootpeers)
    /\ task' = [task EXCEPT ![idx + 1] = "spawned"]
    /\ UNCHANGED <<err, proc, cause, pc, bootPeers, connectedbootpeers, reported>>
    /\ UNCHANGED <<startupVars, discoveryVars, hostVars, statsVars>>
    /\ UNCHANGED dialed

\* The loop is over: go on to wg.Wait().
LoopEnd ==
    /\ proc = "running" /\ pc = "loop"
    /\ idx = Len(bootPeers)
    /\ pc' = "wait"
    /\ UNCHANGED <<err, proc, cause>>
    /\ UNCHANGED <<startupVars, joinerVars, discoveryVars, hostVars, statsVars>>

\* The goroutine evaluates *peerinfo and calls nodehost.Connect. A nil
\* peerinfo panics in the goroutine; the deferred wg.Done() still runs
\* before the runtime ends the process.
TaskConnect(i) ==
    /\ proc = "running"
    /\ task[i] = "spawned"
    /\ task' = [task EXCEPT ![i] =
                  IF AddrInfoFromP2pAddr(bootPeers[i]) = "nil"
                  THEN "panic.defer" ELSE "connecting"]
    /\ dialed' = IF AddrInfoFromP2pAddr(bootPeers[i]) = "nil"
                 THEN dialed ELSE [dialed EXCEPT ![i] = @ + 1]
    /\ UNCHANGED <<err, proc, cause, pc, bootPeers, idx, wg, connectedbootpeers,
                   totalbootpeers, reported>>
    /\ UNCHANGED <<startupVars, discoveryVars, hostVars, statsVars>>

\* a goroutine that treats a failed Connect as fatal
TaskResolveFatal(i) ==
    /\ task[i] = "connecting"
    /\ proc = "running"
    /\ IF bootPeers[i] = "ok"
       THEN /\ task' = [task EXCEPT ![i] = "inc"]
            /\ UNCHANGED <<proc, cause>>
       ELSE /\ Fatalln("Connect")
            /\ UNCHANGED task
    /\ UNCHANGED <<err, pc, bootPeers, idx, wg, connectedbootpeers,
                   totalbootpeers, reported, dialed>>
    /\ UNCHANGED <<startupVars, discoveryVars, hostVars, statsVars>>

\* nodehost.Connect returns: nil for a reachable peer, an error otherwise.
TaskResolve(i) ==
    /\ proc = "running"
    /\ task[i] = "connecting"
    /\ task' = [task EXCEPT ![i] =
                  IF bootPeers[i] = "ok" THEN "inc" ELSE "defer"]
    /\ UNCHANGED <<err, proc, cause, pc, bootPeers, idx, wg, connectedbootpeers,
                   totalbootpeers, reported>>
    /\ UNCHANGED <<startupVars, discoveryVars, hostVars, statsVars>>
    /\ UNCHANGED dialed

\* connectedbootpeers++ without the atomic: of two goroutines that increment
\* together one update is lost
TaskIncLostUpdate(i) ==
    /\ proc = "running"
    /\ task[i] = "inc"
    /\ connectedbootpeers' =
          IF \E j \in 1..Len(bootPeers) : j # i /\ task[j] = "inc"
          THEN connectedbootpeers ELSE IncInt32(connectedbootpeers)
    /\ task' = [task EXCEPT ![i] = "defer"]
    /\ UNCHANGED <<err, proc, cause, pc, bootPeers, idx, wg, totalbootpeers, reported>>
    /\ UNCHANGED <<startupVars, discoveryVars, hostVars, statsVars>>
    /\ UNCHANGED dialed

\* atomic.AddInt32(&connectedbootpeers, 1)
TaskInc(i) ==
    /\ proc = "running"
    /\ task[i] = "inc"
    /\ connectedbootpeers' = IncInt32(connectedbootpeers)
    /\ task' = [task EXCEPT ![i] = "defer"]
    /\ UNCHANGED <<err, proc, cause, pc, bootPeers, idx, wg, totalbootpeers, reported>>
    /\ UNCHANGED <<startupVars, discoveryVars, hostVars, statsVars>>
    /\ UNCHANGED dialed

\* the deferred wg.Done()
TaskDone(i) ==
    /\ proc = "running"
    /\ task[i] \in {"defer", "panic.defer"}
    /\ wg' = wg - 1
    /\ task' = [task EXCEPT ![i] =
                  IF task[i] = "defer" THEN "done" ELSE "panic.exit"]
    /\ UNCHANGED <<err, proc, cause, pc, bootPeers, idx, connectedbootpeers,
                   totalbootpeers, reported>>
    /\ UNCHANGED <<startupVars, discoveryVars, hostVars, statsVars>>
    /\ UNCHANGED dialed

\* the runtime ends the process after the panicking goroutine's defers
TaskPanicExit(i) ==
    /\ proc = "running"
    /\ task[i] = "panic.exit"
    /\ Panic("nil peerinfo")
    /\ UNCHANGED pc
    /\ UNCHANGED <<startupVars, joinerVars, discoveryVars, hostVars, statsVars>>
    /\ UNCHANGED err

\* Wait without the barrier: returns whatever the counter is
WaitNoBarrier ==
    /\ proc = "running" /\ pc = "wait"
    /\ pc' = "report"
    /\ UNCHANGED <<err, proc, cause>>
    /\ UNCHANGED <<startupVars, joinerVars, discoveryVars, hostVars, statsVars>>

\* Wait as a barrier that needs the completion of at least one task
WaitAtLeastOne ==
    /\ proc = "running" /\ pc = "wait"
    /\ wg = 0 /\ idx > 0
    /\ pc' = "report"
    /\ UNCHANGED <<err, proc, cause>>
    /\ UNCHANGED <<startupVars, joinerVars, discoveryVars, hostVars, statsVars>>

\* a Wait that gives up on a dial that has not resolved
WaitWithTimeout ==
    /\ proc = "running" /\ pc = "wait"
    /\ wg = 0 \/ \E i \in 1..Len(bootPeers) : task[i] = "connecting"
    /\ pc' = "report"
    /\ UNCHANGED <<err, proc, cause>>
    /\ UNCHANGED <<startupVars, joinerVars, discoveryVars, hostVars, statsVars>>

\* wg.Wait() returns when the counter is zero
Wait ==
    /\ proc = "running" /\ pc = "wait"
    /\ wg = 0
    /\ pc' = "report"
    /\ UNCHANGED <<err, proc, cause>>
    /\ UNCHANGED <<startupVars, joinerVars, discoveryVars, hostVars, statsVars>>

\* logrus.Debugf("Connected to %d out of %d Bootstrap Peers.", ...), and
\* bootstrapDHT returns
Report ==
    /\ proc = "running" /\ pc = "report"
    /\ reported' = <<connectedbootpeers, totalbootpeers>>
    /\ steps' = Append(steps, "bootstrapDHT")
    /\ pc' = "NewRoutingDiscovery"
    /\ UNCHANGED <<err, proc, cause, node, Host, KadDHT, Discovery, PubSub>>
    /\ UNCHANGED <<bootPeers, idx, wg, connectedbootpeers, totalbootpeers, task>>
    /\ UNCHANGED <<discoveryVars, hostVars, statsVars>>
    /\ UNCHANGED dialed

(***************************************************************************)
(* The rest of NewP2P                                                      *)
(***************************************************************************)
\* discoveryRouting.NewRoutingDiscovery(kaddht): returns no error
NewRoutingDiscovery ==
    /\ proc = "running" /\ pc = "NewRoutingDiscovery"
    /\ steps' = Append(steps, "NewRoutingDiscovery")
    /\ Discovery' = "routing"
    /\ pc' = "setupPubSub"
    /\ UNCHANGED <<err, proc, cause, node, Host, KadDHT, PubSub>>
    /\ UNCHANGED <<joinerVars, discoveryVars, hostVars, statsVars>>

\* setupPubSub with its error logged and not escalated
setupPubSubNotFatal ==
    /\ proc = "running" /\ pc = "setupPubSub"
    /\ steps' = Append(steps, "NewGossipSub")
    /\ \E ok \in BOOLEAN :
          /\ err' = IF ok THEN "nil" ELSE "NewGossipSub"
          /\ PubSub' = IF ok THEN "gossipsub" ELSE "nil"
    /\ pc' = "idle"
    /\ node' = "P2P"
    /\ UNCHANGED <<proc, cause, Host, KadDHT, Discovery>>
    /\ UNCHANGED <<joinerVars, discoveryVars, hostVars, statsVars>>

\* pubsub.NewGossipSub, fatal on error; then NewP2P returns the P2P object
setupPubSub ==
    /\ proc = "running" /\ pc = "setupPubSub"
    /\ steps' = Append(steps, "NewGossipSub")
    /\ \E ok \in BOOLEAN :
          IF ok THEN /\ err' = "nil"
                     /\ pc' = "idle"
                     /\ PubSub' = "gossipsub"
                     /\ node' = "P2P"
                     /\ UNCHANGED <<proc, cause>>
                ELSE /\ err' = "NewGossipSub"
                     /\ Fatalln("NewGossipSub")
                     /\ UNCHANGED <<pc, PubSub, node>>
    /\ UNCHANGED <<Host, KadDHT, Discovery>>
    /\ UNCHANGED <<joinerVars, discoveryVars, hostVars, statsVars>>

\* ---------------------------------------------------------------------
\* generateCID (p2p.go 443-464)
\* ---------------------------------------------------------------------

\* the service names the identifier is computed for
Names == {"", "a", "b"}

\* the serviceName the node of these specifications is constructed with
ServiceName == "a"

\* the digests sha256.Sum256 may return: HashSize bytes each
HashSize == 32
MaxDigests == 3
\* the generateCID calls one behaviour of SpecCID makes
MaxCIDCalls == 2
Digest(k) ==
    [i \in 1..HashSize |->
        IF k = 1 THEN 0
        ELSE IF k = 2 THEN 255
        ELSE (k * 37 + i * (k + 4)) % 256]
Digests == {Digest(k) : k \in 1..MaxDigests}
ShaTables == [Names -> Digests]
ShaFixed == [n \in Names |-> Digest(IF n = "" THEN 1 ELSE IF n = "a" THEN 2 ELSE 3)]

\* hash := sha256.Sum256([]byte(namestring))
Sum256(n) == sha[n]

\* the multihash tags of line 448: 0x12 (sha2-256) and 0x20 (32 bytes)
Sha2_256 == 18
DigestLength == 32
\* finalhash := append([]byte{0x12, 0x20}, hash[:]...), with a wrong length tag
TagHashWrongLength(hash) == <<Sha2_256, DigestLength + 1>> \o hash
\* finalhash := append([]byte{0x12, 0x20}, hash[:]...)
TagHash(hash) == <<Sha2_256, DigestLength>> \o hash

\* the alphabet of base58.Encode and Decode
Alphabet ==
    << "1", "2", "3", "4", "5", "6", "7", "8", "9",
       "A", "B", "C", "D", "E", "F", "G", "H", "J", "K", "L", "M", "N",
       "P", "Q", "R", "S", "T", "U", "V", "W", "X", "Y", "Z",
       "a", "b", "c", "d", "e", "f", "g", "h", "i", "j", "k", "m",
       "n", "o", "p", "q", "r", "s", "t", "u", "v", "w", "x", "y", "z" >>
Radix == Len(Alphabet)
ByteRadix == 256

\* the number of leading z in a sequence
LeadingCount(sq, z) ==
    IF \A i \in 1..Len(sq) : sq[i] = z THEN Len(sq)
    ELSE (CHOOSE i \in 1..Len(sq) :
             sq[i] # z /\ \A j \in 1..(i - 1) : sq[j] = z) - 1

DropLeading(sq, z) == SubSeq(sq, LeadingCount(sq, z) + 1, Len(sq))

\* long division of the big-endian number sq in radix from by d, carry in:
\* digit by digit from the left, the left half of the digits first and its
\* remainder carried into the right half
RECURSIVE DivMod(_, _, _, _)
DivMod(sq, from, d, carry) ==
    IF sq = <<>> THEN [q |-> <<>>, r |-> carry]
    ELSE IF Len(sq) = 1
    THEN LET cur == carry * from + sq[1]
         IN  [q |-> <<cur \div d>>, r |-> cur % d]
    ELSE LET h == Len(sq) \div 2
             left == DivMod(SubSeq(sq, 1, h), from, d, carry)
             right == DivMod(SubSeq(sq, h + 1, Len(sq)), from, d, left.r)
         IN  [q |-> left.q \o right.q, r |-> right.r]

\* the k digits of r in radix to, most significant first
Digits(r, to, k) == [i \in 1..k |-> (r \div (to ^ (k - i))) % to]

\* the big-endian number sq in radix from, written in radix to: each long
\* division by to^k yields the next k digits, as the library's word-wise
\* conversion does; leading zeros may remain
RECURSIVE Convert(_, _, _, _)
Convert(sq, from, to, k) ==
    LET n == DropLeading(sq, 0)
    IN  IF n = <<>> THEN <<>>
        ELSE LET dm == DivMod(n, from, to ^ k, 0)
             IN  Convert(dm.q, from, to, k) \o Digits(dm.r, to, k)

\* the same without leading zeros; to^3 * from fits 32 bits for both
\* directions
ToRadix(sq, from, to) == DropLeading(Convert(sq, from, to, 3), 0)

\* an encoder that loses the least significant digit
EncodeDropsLast(bin) ==
    LET zcount == LeadingCount(bin, 0)
        digits == ToRadix(bin, ByteRadix, Radix)
    IN  [i \in 1..zcount |-> Alphabet[1]] \o
        [i \in 1..(Len(digits) - 1) |-> Alphabet[digits[i] + 1]]

\* b58string := base58.Encode(finalhash): one "1" per leading zero byte,
\* then the number in radix 58
Encode(bin) ==
    LET zcount == LeadingCount(bin, 0)
        digits == ToRadix(bin, ByteRadix, Radix)
    IN  [i \in 1..zcount |-> Alphabet[1]] \o
        [i \in 1..Len(digits) |-> Alphabet[digits[i] + 1]]

\* base58.Decode: fails on an empty string and on a character outside the
\* alphabet; one zero byte per leading "1", then the number in radix 256
Decode(str) ==
    IF str = <<>> THEN [bin |-> <<>>, err |-> "zero length string"]
    ELSE IF \E i \in 1..Len(str) : \A j \in 1..Radix : Alphabet[j] # str[i]
    THEN [bin |-> <<>>, err |-> "invalid base58 digit"]
    ELSE LET digits == [i \in 1..Len(str) |->
                          (CHOOSE j \in 1..Radix : Alphabet[j] = str[i]) - 1]
             zcount == LeadingCount(digits, 0)
         IN  [bin |-> [i \in 1..zcount |-> 0] \o ToRadix(digits, Radix, ByteRadix),
              err |-> "nil"]

\* binary.Uvarint: seven bits per byte, least significant group first; n is
\* the number of bytes read, 0 when the buffer ends inside the number
RECURSIVE Uvarint(_, _, _, _)
Uvarint(buf, i, x, mult) ==
    IF i > Len(buf) \/ i > 4 THEN [v |-> 0, n |-> 0]
    ELSE IF buf[i] < 128 THEN [v |-> x + buf[i] * mult, n |-> i]
    ELSE Uvarint(buf, i + 1, x + (buf[i] - 128) * mult, mult * 128)

\* multihash.Cast: the buffer is a multihash when it holds a code, a length
\* and exactly that many digest bytes
Cast(buf) ==
    LET code == Uvarint(buf, 1, 0, 1)
        rest == SubSeq(buf, code.n + 1, Len(buf))
        length == Uvarint(rest, 1, 0, 1)
        digest == SubSeq(rest, length.n + 1, Len(rest))
    IN  IF code.n = 0 \/ length.n = 0
        THEN [mh |-> <<>>, err |-> "ErrTooShort"]
        ELSE IF Len(digest) # length.v
        THEN [mh |-> <<>>, err |-> "ErrInconsistentLen"]
        ELSE [mh |-> buf, err |-> "nil"]

\* mulhash, err := multihash.FromB58String(string(b58string))
FromB58String(str) ==
    LET d == Decode(str)
    IN  IF d.err # "nil"
        THEN [mh |-> <<>>, err |-> "ErrInvalidMultihash"]
        ELSE Cast(d.bin)

\* cid.Undef, and the value of the cidvalue variable before any call
NoCid == [version |-> 0, codec |-> 0, hash |-> <<>>]

\* a constructor that keeps the tags of the multihash and drops the digest
NewCidV1TagsOnly(codecType, mhash) ==
    [version |-> 1, codec |-> codecType, hash |-> SubSeq(mhash, 1, 2)]
\* cid.NewCidV1(codecType, mhash)
NewCidV1(codecType, mhash) ==
    [version |-> 1, codec |-> codecType, hash |-> mhash]

\* the codec of line 461
Codec == 12

\* generateCID(namestring): the identifier, or the fatal branch of 454-458
generateCID(n) ==
    LET hash == Sum256(n)
        finalhash == TagHash(hash)
        b58string == Encode(finalhash)
        mulhash == FromB58String(b58string)
    IN  IF mulhash.err # "nil"
        THEN [cid |-> NoCid, fatal |-> TRUE]
        ELSE [cid |-> NewCidV1(Codec, mulhash.mh), fatal |-> FALSE]

\* one call generateCID(n); nothing but the caller's result changes
CallGenerateCID(n) ==
    /\ proc = "running" /\ pc = "idle"
    /\ Len(events) < MaxCIDCalls
    /\ namestring' = n
    /\ events' = events \o <<"generateCID">>
    /\ \E r \in {generateCID(n)} :
          IF r.fatal
          THEN /\ Fatalln("generateCID")
               /\ UNCHANGED <<cidvalue, issued>>
          ELSE /\ cidvalue' = r.cid
               /\ issued' = Append(issued, <<n, r.cid>>)
               /\ UNCHANGED <<proc, cause>>
    /\ UNCHANGED <<pc, err, peerchan, chans, connectors, sha, Ctx, service, keys, hostVars, statsVars>>
    /\ UNCHANGED <<startupVars, joinerVars>>

\* no UnmarshalStatsJSON call made
NoResult == [stats |-> "none", zero |-> FALSE, err |-> [msg |-> "", wraps |-> "none"]]

UnmarshalIdle ==
    /\ b = [syntax |-> "ok", typeIs |-> "string", type |-> "",
            kindIs |-> "string", kind |-> "", body |-> "ok"]
    /\ ret = NoResult

(***************************************************************************)
(* statsReportCollector (pion/webrtc stats.go): callers announce a result  *)
(* with Collecting, deliver it with Collect or give it up with Done, and   *)
(* Ready hands out the report once the WaitGroup counter is back at zero.  *)
(*                                                                         *)
(* The callers are the environment.  They keep to the sync.WaitGroup       *)
(* contract: a Collecting that raises the counter from zero happens before *)
(* Ready's Wait, and every Collecting is followed by at most one Collect   *)
(* or Done of the same caller.                                             *)
(***************************************************************************)
MaxTasks == 3
Tasks == 1..MaxTasks
StatsIDs == {"x", "y"}

\* make(StatsReport): the empty map
EmptyReport == [i \in {} |-> 0]

\* every variable of the node, for the frames of the stats operations
nodeVars == <<proc, cause, pc, err, startupVars, joinerVars, discoveryVars, hostVars>>

\* the node before NewP2P, with no bootstrap peers
NodeIdle ==
    /\ proc = "running" /\ cause = "none"
    /\ pc = "start"
    /\ steps = <<>>
    /\ node = "nil" /\ Host = "nil" /\ KadDHT = "nil"
    /\ Discovery = "nil" /\ PubSub = "nil"
    /\ bootPeers = <<>>
    /\ idx = 0 /\ wg = 0
    /\ connectedbootpeers = 0 /\ totalbootpeers = 0
    /\ task = <<>>
    /\ reported = <<>>
    /\ err = "nil" /\ peerchan = 0
    /\ events = <<>> /\ chans = <<>> /\ connectors = <<>>
    /\ dialed = <<>>
    /\ Ctx = "live"
    /\ sha = ShaFixed /\ namestring = "" /\ cidvalue = NoCid
    /\ issued = <<>>
    /\ service = ServiceName /\ keys = <<>>
    /\ nodeHostIP = BindIP /\ nodeHostPort = BindPort
    /\ listen = <<>>

\* newStatsReportCollector, with no caller started and Ready not called
CollectorIdle ==
    /\ callers = [t \in Tasks |-> [at |-> "idle", id |-> ""]]
    /\ collectingGroup = 0
    /\ report = EmptyReport
    /\ mux = "unlocked"
    /\ readyPc = "idle"
    /\ returned = [done |-> FALSE, report |-> EmptyReport]
    /\ writes = <<>>

\* Collecting: collectingGroup.Add(1)
Collecting(t) ==
    /\ callers[t].at = "idle"
    /\ readyPc = "idle" \/ collectingGroup > 0
    /\ collectingGroup' = collectingGroup + 1
    /\ callers' = [callers EXCEPT ![t].at = "collecting"]
    /\ UNCHANGED <<report, mux, readyPc, returned, writes>>
    /\ UNCHANGED <<nodeVars, unmarshalVars>>

\* Collect(id, stats) is called; the caller's stats value is its own number
CollectCall(t, id) ==
    /\ callers[t].at = "collecting"
    /\ callers' = [callers EXCEPT ![t] = [at |-> "lock", id |-> id]]
    /\ UNCHANGED <<collectingGroup, report, mux, readyPc, returned, writes>>
    /\ UNCHANGED <<nodeVars, unmarshalVars>>

\* src.mux.Lock() in Collect
CollectLock(t) ==
    /\ callers[t].at = "lock"
    /\ mux = "unlocked"
    /\ mux' = "Collect"
    /\ callers' = [callers EXCEPT ![t].at = "write"]
    /\ UNCHANGED <<collectingGroup, report, readyPc, returned, writes>>
    /\ UNCHANGED <<nodeVars, unmarshalVars>>

\* src.report[id] = stats
CollectWrite(t) ==
    /\ callers[t].at = "write"
    /\ report' = [i \in DOMAIN report \cup {callers[t].id} |->
                     IF i = callers[t].id THEN t ELSE report[i]]
    /\ writes' = Append(writes, <<callers[t].id, t>>)
    /\ callers' = [callers EXCEPT ![t].at = "done"]
    /\ UNCHANGED <<collectingGroup, mux, readyPc, returned>>
    /\ UNCHANGED <<nodeVars, unmarshalVars>>

\* src.collectingGroup.Done() in Collect
CollectDone(t) ==
    /\ callers[t].at = "done"
    /\ collectingGroup' = collectingGroup - 1
    /\ callers' = [callers EXCEPT ![t].at = "unlock"]
    /\ UNCHANGED <<report, mux, readyPc, returned, writes>>
    /\ UNCHANGED <<nodeVars, unmarshalVars>>

\* the deferred src.mux.Unlock() of Collect
CollectUnlock(t) ==
    /\ callers[t].at = "unlock"
    /\ mux' = "unlocked"
    /\ callers' = [callers EXCEPT ![t].at = "collected"]
    /\ UNCHANGED <<collectingGroup, report, readyPc, returned, writes>>
    /\ UNCHANGED <<nodeVars, unmarshalVars>>

\* Done: collectingGroup.Done() for a result that will not be delivered
Done(t) ==
    /\ callers[t].at = "collecting"
    /\ collectingGroup' = collectingGroup - 1
    /\ callers' = [callers EXCEPT ![t].at = "finished"]
    /\ UNCHANGED <<report, mux, readyPc, returned, writes>>
    /\ UNCHANGED <<nodeVars, unmarshalVars>>

\* Ready is called
ReadyCall ==
    /\ readyPc = "idle"
    /\ readyPc' = "wait"
    /\ UNCHANGED <<callers, collectingGroup, report, mux, returned, writes>>
    /\ UNCHANGED <<nodeVars, unmarshalVars>>

\* a Wait that returns whatever the counter is
ReadyWaitNoBarrier ==
    /\ readyPc = "wait"
    /\ readyPc' = "lock"
    /\ UNCHANGED <<callers, collectingGroup, report, mux, returned, writes>>
    /\ UNCHANGED <<nodeVars, unmarshalVars>>

\* src.collectingGroup.Wait() returns: the counter is zero
ReadyWait ==
    /\ readyPc = "wait"
    /\ collectingGroup = 0
    /\ readyPc' = "lock"
    /\ UNCHANGED <<callers, collectingGroup, report, mux, returned, writes>>
    /\ UNCHANGED <<nodeVars, unmarshalVars>>

\* src.mux.Lock() in Ready
ReadyLock ==
    /\ readyPc = "lock"
    /\ mux = "unlocked"
    /\ mux' = "Ready"
    /\ readyPc' = "return"
    /\ UNCHANGED <<callers, collectingGroup, report, returned, writes>>
    /\ UNCHANGED <<nodeVars, unmarshalVars>>

\* return src.report, then the deferred src.mux.Unlock()
ReadyReturn ==
    /\ readyPc = "return"
    /\ returned' = [done |-> TRUE, report |-> report]
    /\ mux' = "unlocked"
    /\ readyPc' = "returned"
    /\ UNCHANGED <<callers, collectingGroup, report, writes>>
    /\ UNCHANGED <<nodeVars, unmarshalVars>>

InitCollector == NodeIdle /\ CollectorIdle /\ UnmarshalIdle

NextCollector ==
    \/ \E t \in Tasks : Collecting(t)
    \/ \E t \in Tasks, id \in StatsIDs : CollectCall(t, id)
    \/ \E t \in Tasks : CollectLock(t)
    \/ \E t \in Tasks : CollectWrite(t)
    \/ \E t \in Tasks : CollectDone(t)
    \/ \E t \in Tasks : CollectUnlock(t)
    \/ \E t \in Tasks : Done(t)
    \/ ReadyCall
    \/ ReadyWait
    \/ ReadyLock
    \/ ReadyReturn

SpecCollector == InitCollector /\ [][NextCollector]_vars

(***************************************************************************)
(* UnmarshalStatsJSON (pion/webrtc stats.go).  A JSON text is described by *)
(* what encoding/json looks at: whether it is a well-formed object, the    *)
(* "type" and "kind" members (a string, with "" for an absent or null      *)
(* member, or a value that is not a string), and whether its other members *)
(* fit the fields of the record they are decoded into.                     *)
(***************************************************************************)
\* the StatsType constants
KnownTypes ==
    {"codec", "inbound-rtp", "outbound-rtp", "remote-inbound-rtp",
     "remote-outbound-rtp", "csrc", "media-source", "media-playout",
     "peer-connection", "data-channel", "stream", "track", "sender",
     "receiver", "transport", "candidate-pair", "local-candidate",
     "remote-candidate", "certificate", "sctp-transport"}

\* the MediaKind constants
MediaKindAudio == "audio"
MediaKindVideo == "video"

\* the texts UnmarshalStatsJSON is called with: every known type, a missing
\* and an unknown one, every kind, a missing and an unknown one
Inputs ==
    LET TypeTexts == KnownTypes \cup {"", "bogus"}
        KindTexts == {MediaKindAudio, MediaKindVideo, "", "bogus"}
    IN
    {[syntax |-> s, typeIs |-> "string", type |-> t, kindIs |-> "string", kind |-> k, body |-> d] :
        s \in {"ok", "bad"}, t \in TypeTexts, k \in KindTexts, d \in {"ok", "bad"}}
    \cup
    {[syntax |-> s, typeIs |-> "number", type |-> "", kindIs |-> "string", kind |-> k, body |-> d] :
        s \in {"ok", "bad"}, k \in KindTexts, d \in {"ok", "bad"}}
    \cup
    {[syntax |-> s, typeIs |-> "string", type |-> t, kindIs |-> "number", kind |-> "", body |-> d] :
        s \in {"ok", "bad"}, t \in TypeTexts, d \in {"ok", "bad"}}

\* the records that have a Kind string field
WithKind ==
    {"InboundRTPStreamStats", "OutboundRTPStreamStats", "RemoteInboundRTPStreamStats",
     "RemoteOutboundRTPStreamStats", "AudioSourceStats", "VideoSourceStats",
     "AudioPlayoutStats", "AudioSenderStats", "VideoSenderStats",
     "SenderAudioTrackAttachmentStats", "SenderVideoTrackAttachmentStats",
     "AudioReceiverStats", "VideoReceiverStats"}

\* json.Unmarshal(b, &target): "nil" or the error it returns
Unmarshal(v, target) ==
    IF v.syntax # "ok" THEN "SyntaxError"
    ELSE IF target = "typeJSON"
    THEN IF v.typeIs = "string" THEN "nil" ELSE "UnmarshalTypeError"
    ELSE IF target = "kindJSON"
    THEN IF v.kindIs = "string" THEN "nil" ELSE "UnmarshalTypeError"
    ELSE IF \/ v.typeIs # "string"
            \/ target \in WithKind /\ v.kindIs # "string"
            \/ v.body # "ok"
    THEN "UnmarshalTypeError"
    ELSE "nil"

\* fmt.Errorf(msg + ": %w", cause)
Errorf(msg, wrapped) == [msg |-> msg, wraps |-> wrapped]
NilError == [msg |-> "", wraps |-> "nil"]

\* a decoded record and a nil error
Value(record) == [stats |-> record, zero |-> FALSE, err |-> NilError]

\* a nil Stats and an error
Nil(e) == [stats |-> "nil", zero |-> FALSE, err |-> e]

\* a helper with a concrete result type: the decoded record, or the zero
\* record with the error
Concrete(v, record, msg) ==
    LET e == Unmarshal(v, record)
    IN  IF e # "nil"
        THEN [stats |-> record, zero |-> TRUE, err |-> Errorf(msg, e)]
        ELSE Value(record)

\* a branch of a helper whose result type is Stats: the decoded record, or
\* nil with the error
Boxed(v, record, msg) ==
    LET e == Unmarshal(v, record)
    IN  IF e # "nil" THEN Nil(Errorf(msg, e)) ELSE Value(record)

unmarshalCodecStats(v) == Concrete(v, "CodecStats", "unmarshal codec stats")
unmarshalInboundRTPStreamStats(v) ==
    Concrete(v, "InboundRTPStreamStats", "unmarshal inbound rtp stream stats")
unmarshalOutboundRTPStreamStats(v) ==
    Concrete(v, "OutboundRTPStreamStats", "unmarshal outbound rtp stream stats")
unmarshalRemoteInboundRTPStreamStats(v) ==
    Concrete(v, "RemoteInboundRTPStreamStats", "unmarshal remote inbound rtp stream stats")
unmarshalRemoteOutboundRTPStreamStats(v) ==
    Concrete(v, "RemoteOutboundRTPStreamStats", "unmarshal remote outbound rtp stream stats")
unmarshalCSRCStats(v) == Concrete(v, "RTPContributingSourceStats", "unmarshal csrc stats")
unmarshalPeerConnectionStats(v) == Concrete(v, "PeerConnectionStats", "unmarshal pc stats")
unmarshalDataChannelStats(v) == Concrete(v, "DataChannelStats", "unmarshal data channel stats")
unmarshalStreamStats(v) == Concrete(v, "MediaStreamStats", "unmarshal stream stats")
unmarshalTransportStats(v) == Concrete(v, "TransportStats", "unmarshal transport stats")
unmarshalICECandidatePairStats(v) ==
    Concrete(v, "ICECandidatePairStats", "unmarshal ice candidate pair stats")
unmarshalICECandidateStats(v) ==
    Concrete(v, "ICECandidateStats", "unmarshal ice candidate stats")
unmarshalCertificateStats(v) == Concrete(v, "CertificateStats", "unmarshal certificate stats")
unmarshalSCTPTransportStats(v) ==
    Concrete(v, "SCTPTransportStats", "unmarshal sctp transport stats")

\* the kind-discriminated helpers: decode the kind, then the audio or the
\* video record
ByKind(v, audio, audiomsg, video, videomsg) ==
    LET e == Unmarshal(v, "kindJSON")
    IN  IF e # "nil" THEN Nil(Errorf("unmarshal json kind", e))
        ELSE CASE v.kind = MediaKindAudio -> Boxed(v, audio, audiomsg)
               [] v.kind = MediaKindVideo -> Boxed(v, video, videomsg)
               [] OTHER -> Nil(Errorf("kind", "ErrUnknownType"))

unmarshalMediaSourceStats(v) ==
    ByKind(v, "AudioSourceStats", "unmarshal audio source stats",
              "VideoSourceStats", "unmarshal video source stats")

unmarshalMediaPlayoutStats(v) ==
    Boxed(v, "AudioPlayoutStats", "unmarshal audio playout stats")

unmarshalSenderStats(v) ==
    ByKind(v, "AudioSenderStats", "unmarshal audio sender stats",
              "VideoSenderStats", "unmarshal video sender stats")

unmarshalTrackStats(v) ==
    ByKind(v, "SenderAudioTrackAttachmentStats", "unmarshal audio track stats",
              "SenderVideoTrackAttachmentStats", "unmarshal video track stats")

unmarshalReceiverStats(v) ==
    ByKind(v, "AudioReceiverStats", "unmarshal audio receiver stats",
              "VideoReceiverStats", "unmarshal video receiver stats")

\* the switch of UnmarshalStatsJSON
Dispatch(v, candidates) ==
    CASE v.type = "codec" -> unmarshalCodecStats(v)
      [] v.type = "inbound-rtp" -> unmarshalInboundRTPStreamStats(v)
      [] v.type = "outbound-rtp" -> unmarshalOutboundRTPStreamStats(v)
      [] v.type = "remote-inbound-rtp" -> unmarshalRemoteInboundRTPStreamStats(v)
      [] v.type = "remote-outbound-rtp" -> unmarshalRemoteOutboundRTPStreamStats(v)
      [] v.type = "csrc" -> unmarshalCSRCStats(v)
      [] v.type = "media-source" -> unmarshalMediaSourceStats(v)
      [] v.type = "media-playout" -> unmarshalMediaPlayoutStats(v)
      [] v.type = "peer-connection" -> unmarshalPeerConnectionStats(v)
      [] v.type = "data-channel" -> unmarshalDataChannelStats(v)
      [] v.type = "stream" -> unmarshalStreamStats(v)
      [] v.type = "track" -> unmarshalTrackStats(v)
      [] v.type = "sender" -> unmarshalSenderStats(v)
      [] v.type = "receiver" -> unmarshalReceiverStats(v)
      [] v.type = "transport" -> unmarshalTransportStats(v)
      [] v.type = "candidate-pair" -> unmarshalICECandidatePairStats(v)
      [] v.type \in candidates -> unmarshalICECandidateStats(v)
      [] v.type = "certificate" -> unmarshalCertificateStats(v)
      [] v.type = "sctp-transport" -> unmarshalSCTPTransportStats(v)
      [] OTHER -> Nil(Errorf("type", "ErrUnknownType"))

\* a switch without the remote-candidate label
UnmarshalStatsJSONLocalOnly(v) ==
    LET e == Unmarshal(v, "typeJSON")
    IN  IF e # "nil" THEN Nil(Errorf("unmarshal json type", e))
        ELSE Dispatch(v, {"local-candidate"})

UnmarshalStatsJSON(v) ==
    LET e == Unmarshal(v, "typeJSON")
    IN  IF e # "nil" THEN Nil(Errorf("unmarshal json type", e))
        ELSE Dispatch(v, {"local-candidate", "remote-candidate"})

\* one call of UnmarshalStatsJSON on b
CallUnmarshalStatsJSON ==
    /\ ret = NoResult
    /\ ret' = UnmarshalStatsJSON(b)
    /\ UNCHANGED <<b, nodeVars, collectorVars>>

InitStats ==
    /\ NodeIdle /\ CollectorIdle
    /\ b \in Inputs
    /\ ret = NoResult

NextStats == CallUnmarshalStatsJSON

SpecStats == InitStats /\ [][NextStats]_vars

(***************************************************************************)
(* Startup specification                                                   *)
(***************************************************************************)
Init ==
    /\ proc = "running" /\ cause = "none"
    /\ pc = "start"
    /\ steps = <<>>
    /\ node = "nil" /\ Host = "nil" /\ KadDHT = "nil"
    /\ Discovery = "nil" /\ PubSub = "nil"
    /\ bootPeers \in BootPeerSets
    /\ idx = 0 /\ wg = 0
    /\ connectedbootpeers = 0 /\ totalbootpeers = 0
    /\ task = [i \in 1..Len(bootPeers) |-> "none"]
    /\ reported = <<>>
    /\ err = "nil" /\ peerchan = 0
    /\ events = <<>> /\ chans = <<>> /\ connectors = <<>>
    /\ dialed = [i \in 1..Len(bootPeers) |-> 0]
    /\ Ctx = "live"
    /\ sha = ShaFixed /\ namestring = "" /\ cidvalue = NoCid
    /\ issued = <<>>
    /\ service = ServiceName /\ keys = <<>>
    /\ nodeHostIP = BindIP /\ nodeHostPort = BindPort
    /\ listen = <<>>
    /\ CollectorIdle /\ UnmarshalIdle

Next ==
    \/ GenerateKeyPair
    \/ NewConnManager
    \/ Libp2pNew
    \/ setupKadDHT
    \/ Libp2pNewRest
    \/ Bootstrap
    \/ SpawnTask
    \/ LoopEnd
    \/ \E i \in 1..Len(bootPeers) : TaskConnect(i)
    \/ \E i \in 1..Len(bootPeers) : TaskResolve(i)
    \/ \E i \in 1..Len(bootPeers) : TaskInc(i)
    \/ \E i \in 1..Len(bootPeers) : TaskDone(i)
    \/ \E i \in 1..Len(bootPeers) : TaskPanicExit(i)
    \/ Wait
    \/ Report
    \/ NewRoutingDiscovery
    \/ setupPubSub

Spec == Init /\ [][Next]_vars

\* The same under the scheduler's guarantee: a step that can be taken is
\* taken, so every library call returns and every goroutine runs.
SpecFair == Spec /\ WF_vars(Next)

(***************************************************************************)
(* Discovery: AdvertiseConnect, AnnounceConnect                            *)
(***************************************************************************)
\* nodehost.ID() and the identifiers of the other peers
LocalID == "self"
RemoteIDs == {"p1", "p2"}
PeerIDs == {LocalID} \cup RemoteIDs

\* the count argument 0 of FindProvidersAsync: no maximum number of providers
Unlimited == 0

\* a channel as the query hands it out: open and empty; the query ends it
\* after count entries when count is not Unlimited
NewChan(count) ==
    [buf |-> <<>>, closed |-> FALSE, delivered |-> <<>>, count |-> count]

\* a handlePeerDiscovery goroutine at its start
NewConnector(ch) ==
    [chan |-> ch, cpc |-> "recv", cur |-> "none", attempts |-> <<>>, log |-> <<>>]

RECURSIVE CountCalls(_)
CountCalls(ev) ==
    IF ev = <<>> THEN 0
    ELSE (IF ev[1] \in {"Advertise", "generateCID"} THEN 1 ELSE 0)
         + CountCalls(Tail(ev))

RECURSIVE TotalDelivered(_)
TotalDelivered(cs) ==
    IF cs = <<>> THEN 0 ELSE Len(cs[1].delivered) + TotalDelivered(Tail(cs))

\* the key of a rendezvous call: the namespace string it was passed
Rendezvous(call, ns) == [call |-> call, ns |-> ns, cid |-> NoCid]

\* the key of a provider-record call: the identifier it was passed
Provider(call, id) == [call |-> call, ns |-> "", cid |-> id]

\* an AdvertiseConnect that returns when Advertise fails
AdvertiseReturnOnError ==
    /\ proc = "running" /\ pc = "idle"
    /\ CountCalls(events) < MaxCalls
    /\ \E ok \in BOOLEAN :
           /\ err' = IF ok THEN "nil" ELSE "Advertise"
           /\ pc' = IF ok THEN "adv.sleep" ELSE "idle"
    /\ events' = events \o <<"Advertise", "log:Advertised the p2p Service.">>
    /\ peerchan' = 0
    /\ UNCHANGED <<proc, cause, chans, connectors>>
    /\ keys' = Append(keys, Rendezvous("Advertise", service))
    /\ UNCHANGED <<startupVars, joinerVars, cidVars, Ctx, hostVars, statsVars>>

\* p2p.Discovery.Advertise(p2p.Ctx, p2p.service), then the debug line
AdvertiseCall ==
    /\ proc = "running" /\ pc = "idle"
    /\ \E ok \in BOOLEAN :
           /\ err' = IF ok THEN "nil" ELSE "Advertise"
    /\ events' = events \o <<"Advertise", "log:Advertised the p2p Service.">>
    /\ peerchan' = 0
    /\ pc' = "adv.sleep"
    /\ UNCHANGED <<proc, cause, chans, connectors>>
    /\ keys' = Append(keys, Rendezvous("Advertise", service))
    /\ UNCHANGED <<startupVars, joinerVars, cidVars, Ctx, hostVars, statsVars>>

\* a call of AdvertiseConnect, while the behaviour has calls left
Advertise ==
    /\ CountCalls(events) < MaxCalls
    /\ AdvertiseCall

\* a call of AdvertiseConnect on a node that has not made one
AdvertiseOnce ==
    /\ \A i \in 1..Len(events) : events[i] # "Advertise"
    /\ AdvertiseCall

\* logrus.Debugf("Service Time-to-Live is %s", ttl), without the value
TimeToLiveLine == "log:Service Time-to-Live is %s"

\* an AdvertiseConnect that queries without the settling delay
AdvSleepNoDelay ==
    /\ proc = "running" /\ pc = "adv.sleep"
    /\ events' = events \o <<TimeToLiveLine>>
    /\ pc' = "adv.find"
    /\ UNCHANGED <<proc, cause, err, peerchan, chans, connectors>>
    /\ UNCHANGED <<startupVars, joinerVars, cidVars, Ctx, keys, hostVars, statsVars>>

\* time.Sleep(time.Second * 5), then the ttl is logged
AdvSleep ==
    /\ proc = "running" /\ pc = "adv.sleep"
    /\ events' = events \o <<"Sleep", TimeToLiveLine>>
    /\ pc' = "adv.find"
    /\ UNCHANGED <<proc, cause, err, peerchan, chans, connectors>>
    /\ UNCHANGED <<startupVars, joinerVars, cidVars, Ctx, keys, hostVars, statsVars>>

\* a FindPeers call that replaces p2p.Ctx by a context derived for the query
FindPeersDerivedCtx ==
    /\ proc = "running" /\ pc = "adv.find"
    /\ \E ok \in BOOLEAN :
          IF ok THEN /\ err' = "nil"
                     /\ chans' = Append(chans, NewChan(Unlimited))
                     /\ peerchan' = Len(chans) + 1
                ELSE /\ err' = "FindPeers"
                     /\ peerchan' = 0
                     /\ UNCHANGED chans
    /\ events' = Append(events, "FindPeers")
    /\ pc' = "adv.check"
    /\ Ctx' = "derived"
    /\ keys' = Append(keys, Rendezvous("FindPeers", service))
    /\ UNCHANGED <<proc, cause, connectors>>
    /\ UNCHANGED <<startupVars, joinerVars, cidVars, hostVars, statsVars>>

\* peerchan, err := p2p.Discovery.FindPeers(p2p.Ctx, p2p.service)
FindPeers ==
    /\ proc = "running" /\ pc = "adv.find"
    /\ \E ok \in BOOLEAN :
          IF ok THEN /\ err' = "nil"
                     /\ chans' = Append(chans, NewChan(Unlimited))
                     /\ peerchan' = Len(chans) + 1
                ELSE /\ err' = "FindPeers"
                     /\ peerchan' = 0
                     /\ UNCHANGED chans
    /\ events' = Append(events, "FindPeers")
    /\ pc' = "adv.check"
    /\ UNCHANGED <<proc, cause, connectors>>
    /\ keys' = Append(keys, Rendezvous("FindPeers", service))
    /\ UNCHANGED <<startupVars, joinerVars, cidVars, Ctx, hostVars, statsVars>>

\* the error check with the failure logged and not escalated
AdvCheckNotFatal ==
    /\ proc = "running" /\ pc = "adv.check"
    /\ pc' = "adv.go"
    /\ events' = Append(events, IF err # "nil"
                                THEN "log:P2P Peer Discovery Failed!"
                                ELSE "log:Discovered p2p Service Peers.")
    /\ UNCHANGED <<proc, cause, err, peerchan, chans, connectors>>
    /\ UNCHANGED <<startupVars, joinerVars, cidVars, Ctx, keys, hostVars, statsVars>>

\* if err != nil { Fatalln("P2P Peer Discovery Failed!") }
AdvCheck ==
    /\ proc = "running" /\ pc = "adv.check"
    /\ IF err # "nil"
       THEN /\ Fatalln("FindPeers")
            /\ events' = Append(events, "log:P2P Peer Discovery Failed!")
            /\ UNCHANGED pc
       ELSE /\ pc' = "adv.go"
            /\ events' = Append(events, "log:Discovered p2p Service Peers.")
            /\ UNCHANGED <<proc, cause>>
    /\ UNCHANGED <<err, peerchan, chans, connectors>>
    /\ UNCHANGED <<startupVars, joinerVars, cidVars, Ctx, keys, hostVars, statsVars>>

\* a call that starts a connector only when none was started before
StartConnectorOnce ==
    /\ proc = "running" /\ pc \in {"adv.go", "ann.go"}
    /\ connectors' = IF connectors = <<>>
                     THEN Append(connectors, NewConnector(peerchan))
                     ELSE connectors
    /\ events' = events \o <<"go", "log:Started Peer Connection Handler.">>
    /\ pc' = "idle"
    /\ UNCHANGED <<proc, cause, err, peerchan, chans>>
    /\ UNCHANGED <<startupVars, joinerVars, cidVars, Ctx, keys, hostVars, statsVars>>

\* go handlePeerDiscovery(p2p.Host, peerchan), the log line, and the return
StartConnector ==
    /\ proc = "running" /\ pc \in {"adv.go", "ann.go"}
    /\ connectors' = Append(connectors, NewConnector(peerchan))
    /\ events' = events \o <<"go", "log:Started Peer Connection Handler.">>
    /\ pc' = "idle"
    /\ UNCHANGED <<proc, cause, err, peerchan, chans>>
    /\ UNCHANGED <<startupVars, joinerVars, cidVars, Ctx, keys, hostVars, statsVars>>

\* cidvalue := generateCID(p2p.service)
GenerateCIDCall ==
    /\ proc = "running" /\ pc = "idle"
    /\ namestring' = service
    /\ err' = "nil"
    /\ peerchan' = 0
    /\ \E r \in {generateCID(service)} :
          IF r.fatal
          THEN /\ Fatalln("generateCID")
               /\ events' = Append(events, "generateCID")
               /\ UNCHANGED <<pc, cidvalue, issued>>
          ELSE /\ cidvalue' = r.cid
               /\ issued' = Append(issued, <<service, r.cid>>)
               /\ events' = events \o <<"generateCID", "log:Generated the Service CID.">>
               /\ pc' = "ann.provide"
               /\ UNCHANGED <<proc, cause>>
    /\ UNCHANGED <<chans, connectors, sha, service, Ctx, keys, hostVars, statsVars>>
    /\ UNCHANGED <<startupVars, joinerVars>>

\* a call of AnnounceConnect, while the behaviour has calls left
GenerateCID ==
    /\ CountCalls(events) < MaxCalls
    /\ GenerateCIDCall

\* a call of AnnounceConnect on a node that has not made one
GenerateCIDOnce ==
    /\ \A i \in 1..Len(events) : events[i] # "generateCID"
    /\ GenerateCIDCall

\* Provide with its error logged and not escalated
ProvideNotFatal ==
    /\ proc = "running" /\ pc = "ann.provide"
    /\ \E ok \in BOOLEAN :
          /\ err' = IF ok THEN "nil" ELSE "Provide"
          /\ events' = events \o <<"Provide",
                           IF ok THEN "log:Announced the p2p Service."
                                 ELSE "log:Failed to Announce Service CID!">>
    /\ pc' = "ann.sleep"
    /\ UNCHANGED <<proc, cause, peerchan, chans, connectors>>
    /\ keys' = Append(keys, Provider("Provide", cidvalue))
    /\ UNCHANGED <<startupVars, joinerVars, cidVars, Ctx, hostVars, statsVars>>

\* err := p2p.KadDHT.Provide(p2p.Ctx, cidvalue, true), fatal on error
Provide ==
    /\ proc = "running" /\ pc = "ann.provide"
    /\ \E ok \in BOOLEAN :
          IF ok THEN /\ err' = "nil"
                     /\ pc' = "ann.sleep"
                     /\ events' = events \o <<"Provide", "log:Announced the p2p Service.">>
                     /\ UNCHANGED <<proc, cause>>
                ELSE /\ err' = "Provide"
                     /\ Fatalln("Provide")
                     /\ events' = events \o <<"Provide", "log:Failed to Announce Service CID!">>
                     /\ UNCHANGED pc
    /\ UNCHANGED <<peerchan, chans, connectors>>
    /\ keys' = Append(keys, Provider("Provide", cidvalue))
    /\ UNCHANGED <<startupVars, joinerVars, cidVars, Ctx, hostVars, statsVars>>

\* time.Sleep(time.Second * 5)
AnnSleep ==
    /\ proc = "running" /\ pc = "ann.sleep"
    /\ events' = Append(events, "Sleep")
    /\ pc' = "ann.find"
    /\ UNCHANGED <<proc, cause, err, peerchan, chans, connectors>>
    /\ UNCHANGED <<startupVars, joinerVars, cidVars, Ctx, keys, hostVars, statsVars>>

\* a provider query that asks for one provider only
FindProvidersAsyncLimited ==
    /\ proc = "running" /\ pc = "ann.find"
    /\ chans' = Append(chans, NewChan(1))
    /\ peerchan' = Len(chans) + 1
    /\ events' = events \o <<"FindProvidersAsync", "log:Discovered p2p Service Peers.">>
    /\ pc' = "ann.go"
    /\ UNCHANGED <<proc, cause, err, connectors>>
    /\ keys' = Append(keys, Provider("FindProvidersAsync", cidvalue))
    /\ UNCHANGED <<startupVars, joinerVars, cidVars, Ctx, hostVars, statsVars>>

\* a provider query that derives its key again, from the empty name
FindProvidersAsyncOtherKey ==
    /\ proc = "running" /\ pc = "ann.find"
    /\ chans' = Append(chans, NewChan(Unlimited))
    /\ peerchan' = Len(chans) + 1
    /\ events' = events \o <<"FindProvidersAsync", "log:Discovered p2p Service Peers.">>
    /\ pc' = "ann.go"
    /\ keys' = Append(keys, Provider("FindProvidersAsync", generateCID("").cid))
    /\ UNCHANGED <<proc, cause, err, connectors>>
    /\ UNCHANGED <<startupVars, joinerVars, cidVars, Ctx, hostVars, statsVars>>

\* peerchan := p2p.KadDHT.FindProvidersAsync(p2p.Ctx, cidvalue, 0)
FindProvidersAsync ==
    /\ proc = "running" /\ pc = "ann.find"
    /\ chans' = Append(chans, NewChan(Unlimited))
    /\ peerchan' = Len(chans) + 1
    /\ events' = events \o <<"FindProvidersAsync", "log:Discovered p2p Service Peers.">>
    /\ pc' = "ann.go"
    /\ UNCHANGED <<proc, cause, err, connectors>>
    /\ keys' = Append(keys, Provider("FindProvidersAsync", cidvalue))
    /\ UNCHANGED <<startupVars, joinerVars, cidVars, Ctx, hostVars, statsVars>>

(***************************************************************************)
(* The producing side of a peer channel (the DHT query)                    *)
(***************************************************************************)
Deliver(ch, p) ==
    /\ proc = "running"
    /\ ~chans[ch].closed
    /\ Len(chans[ch].buf) < ChanCap
    /\ chans' = [chans EXCEPT
                   ![ch].buf = Append(@, p),
                   ![ch].delivered = Append(@, p),
                   ![ch].closed = /\ chans[ch].count # Unlimited
                                  /\ Len(chans[ch].delivered) + 1 >= chans[ch].count]
    /\ UNCHANGED <<proc, cause, pc, err, peerchan, events, connectors>>
    /\ UNCHANGED <<startupVars, joinerVars, cidVars, Ctx, keys, hostVars, statsVars>>

\* the query delivers p, while the behaviour has deliveries left
Send(ch, p) ==
    /\ TotalDelivered(chans) < MaxDelivered
    /\ Deliver(ch, p)

\* the same with one delivery less, for behaviours with two queries
SendFew(ch, p) ==
    /\ TotalDelivered(chans) < MaxDelivered - 1
    /\ Deliver(ch, p)

Close(ch) ==
    /\ proc = "running"
    /\ ~chans[ch].closed
    /\ chans' = [chans EXCEPT ![ch].closed = TRUE]
    /\ UNCHANGED <<proc, cause, pc, err, peerchan, events, connectors>>
    /\ UNCHANGED <<startupVars, joinerVars, cidVars, Ctx, keys, hostVars, statsVars>>

(***************************************************************************)
(* handlePeerDiscovery                                                     *)
(***************************************************************************)
\* the loop without the self filter
IsSelfNever(p) == FALSE

\* if peer.ID == nodehost.ID() { continue }
IsSelf(p) == p = LocalID

\* a loop that starts each connect with "go" and takes the next entry at once
RecvWithoutWaiting(c) ==
    /\ proc = "running"
    /\ connectors[c].cpc \in {"recv", "connecting"}
    /\ connectors[c].chan # 0
    /\ LET ch == connectors[c].chan
           p == Head(chans[ch].buf)
       IN /\ chans[ch].buf # <<>>
          /\ chans' = [chans EXCEPT ![ch].buf = Tail(@)]
          /\ connectors' =
               IF IsSelf(p) THEN connectors
               ELSE [connectors EXCEPT ![c].cpc = "connecting",
                                       ![c].cur = p,
                                       ![c].attempts = Append(@, p)]
    /\ UNCHANGED <<proc, cause, pc, err, peerchan, events>>
    /\ UNCHANGED <<startupVars, joinerVars, cidVars, Ctx, keys, hostVars, statsVars>>

\* One iteration of "for peer := range peerchan" up to the call of
\* nodehost.Connect(context.Background(), peer).
Recv(c) ==
    /\ proc = "running"
    /\ connectors[c].cpc = "recv"
    /\ connectors[c].chan # 0
    /\ LET ch == connectors[c].chan
           p == Head(chans[ch].buf)
       IN /\ chans[ch].buf # <<>>
          /\ chans' = [chans EXCEPT ![ch].buf = Tail(@)]
          /\ connectors' =
               IF IsSelf(p) THEN connectors
               ELSE [connectors EXCEPT ![c].cpc = "connecting",
                                       ![c].cur = p,
                                       ![c].attempts = Append(@, p)]
    /\ UNCHANGED <<proc, cause, pc, err, peerchan, events>>
    /\ UNCHANGED <<startupVars, joinerVars, cidVars, Ctx, keys, hostVars, statsVars>>

\* "for { peer := <-peerchan ... }" in place of the range loop: a closed and
\* drained channel yields the zero AddrInfo, and the loop goes on
RangeEndIgnoresClose(c) ==
    /\ proc = "running"
    /\ connectors[c].cpc = "recv"
    /\ connectors[c].chan # 0
    /\ Len(connectors[c].attempts) <= MaxDelivered
    /\ LET ch == connectors[c].chan
       IN chans[ch].buf = <<>> /\ chans[ch].closed
    /\ connectors' = [connectors EXCEPT ![c].cpc = "connecting",
                                        ![c].cur = "",
                                        ![c].attempts = Append(@, "")]
    /\ UNCHANGED <<proc, cause, pc, err, peerchan, events, chans>>
    /\ UNCHANGED <<startupVars, joinerVars, cidVars, Ctx, keys, hostVars, statsVars>>

\* the range loop ends when the channel is closed and drained
RangeEnd(c) ==
    /\ proc = "running"
    /\ connectors[c].cpc = "recv"
    /\ connectors[c].chan # 0
    /\ LET ch == connectors[c].chan
       IN chans[ch].buf = <<>> /\ chans[ch].closed
    /\ connectors' = [connectors EXCEPT ![c].cpc = "done"]
    /\ UNCHANGED <<proc, cause, pc, err, peerchan, events, chans>>
    /\ UNCHANGED <<startupVars, joinerVars, cidVars, Ctx, keys, hostVars, statsVars>>

\* what the loop body logs once Connect has returned err
ConnectLog(p, ok) ==
    (IF ok THEN <<>> ELSE << <<"failed", p>> >>) \o << <<"success", p>> >>

\* the loop body returning on a failed Connect
ConnectReturnStopOnError(c) ==
    /\ proc = "running"
    /\ connectors[c].cpc = "connecting"
    /\ \E ok \in BOOLEAN :
          connectors' = [connectors EXCEPT
                            ![c].cpc = IF ok THEN "recv" ELSE "done",
                            ![c].cur = "none",
                            ![c].log = @ \o ConnectLog(connectors[c].cur, ok)]
    /\ UNCHANGED <<proc, cause, pc, err, peerchan, events, chans>>
    /\ UNCHANGED <<startupVars, joinerVars, cidVars, Ctx, keys, hostVars, statsVars>>

\* a loop body that dials the same peer once more after a failed Connect
ConnectReturnRetry(c) ==
    /\ proc = "running"
    /\ connectors[c].cpc = "connecting"
    /\ \E ok \in BOOLEAN :
          connectors' =
             IF ~ok /\ CountOf(connectors[c].attempts, connectors[c].cur) < 2
             THEN [connectors EXCEPT
                      ![c].attempts = Append(@, connectors[c].cur),
                      ![c].log = Append(@, <<"failed", connectors[c].cur>>)]
             ELSE [connectors EXCEPT
                      ![c].cpc = "recv",
                      ![c].cur = "none",
                      ![c].log = @ \o ConnectLog(connectors[c].cur, ok)]
    /\ UNCHANGED <<proc, cause, pc, err, peerchan, events, chans>>
    /\ UNCHANGED <<startupVars, joinerVars, cidVars, Ctx, keys, hostVars, statsVars>>

\* nodehost.Connect returns; the outcome is logged; next iteration
ConnectReturn(c) ==
    /\ proc = "running"
    /\ connectors[c].cpc = "connecting"
    /\ \E ok \in BOOLEAN :
          connectors' = [connectors EXCEPT
                            ![c].cpc = "recv",
                            ![c].cur = "none",
                            ![c].log = @ \o ConnectLog(connectors[c].cur, ok)]
    /\ UNCHANGED <<proc, cause, pc, err, peerchan, events, chans>>
    /\ UNCHANGED <<startupVars, joinerVars, cidVars, Ctx, keys, hostVars, statsVars>>

(***************************************************************************)
(* The root context p2p.Ctx ending                                         *)
(***************************************************************************)
\* a handlePeerDiscovery bound to the root context: it ends with it
CtxDoneStopsConnectors ==
    /\ proc = "running"
    /\ Ctx = "live"
    /\ Ctx' = "done"
    /\ connectors' = [c \in 1..Len(connectors) |->
                        [connectors[c] EXCEPT !.cpc = "done", !.cur = "none"]]
    /\ UNCHANGED <<proc, cause, pc, err, peerchan, events, chans>>
    /\ UNCHANGED <<startupVars, joinerVars, cidVars, keys, hostVars, statsVars>>

\* p2p.Ctx is done. handlePeerDiscovery is started without it (lines 126,
\* 161) and connects with context.Background() (line 429)
CtxDone ==
    /\ proc = "running"
    /\ Ctx = "live"
    /\ Ctx' = "done"
    /\ UNCHANGED <<proc, cause, pc, err, peerchan, events, chans, connectors>>
    /\ UNCHANGED <<startupVars, joinerVars, cidVars, keys, hostVars, statsVars>>

(***************************************************************************)
(* Discovery specification: the calls made on a node NewP2P returned       *)
(***************************************************************************)
\* the startup steps of a run of NewP2P in which nothing failed
FullStartup ==
    <<"GenerateKeyPair", "NewConnManager", "dht.New", "libp2p.New",
      "Bootstrap", "bootstrapDHT", "NewRoutingDiscovery", "NewGossipSub">>

\* the state in which NewP2P returned, after a bootstrap pass over one
\* reachable and one unreachable peer
InitDiscovery ==
    /\ proc = "running" /\ cause = "none"
    /\ pc = "idle"
    /\ steps = FullStartup
    /\ node = "P2P" /\ Host = "host" /\ KadDHT = "bootstrapped"
    /\ Discovery = "routing" /\ PubSub = "gossipsub"
    /\ bootPeers = <<"ok", "down">>
    /\ idx = 2 /\ wg = 0
    /\ connectedbootpeers = 1 /\ totalbootpeers = 2
    /\ task = [i \in 1..2 |-> "done"]
    /\ reported = <<1, 2>>
    /\ err = "nil" /\ peerchan = 0
    /\ events = <<>> /\ chans = <<>> /\ connectors = <<>>
    /\ dialed = [i \in 1..2 |-> 1]
    /\ Ctx = "live"
    /\ sha = ShaFixed /\ namestring = "" /\ cidvalue = NoCid
    /\ issued = <<>>
    /\ service = ServiceName /\ keys = <<>>
    /\ nodeHostIP = BindIP /\ nodeHostPort = BindPort
    /\ listen = ListenAddrStrings(BindIP, BindPort)
    /\ CollectorIdle /\ UnmarshalIdle

NextDiscovery ==
    \/ Advertise
    \/ AdvSleep
    \/ FindPeers
    \/ AdvCheck
    \/ GenerateCID
    \/ Provide
    \/ AnnSleep
    \/ FindProvidersAsync
    \/ StartConnector
    \/ \E ch \in 1..Len(chans) : \E p \in PeerIDs : Send(ch, p)
    \/ \E ch \in 1..Len(chans) : Close(ch)
    \/ \E c \in 1..Len(connectors) : Recv(c)
    \/ \E c \in 1..Len(connectors) : RangeEnd(c)
    \/ \E c \in 1..Len(connectors) : ConnectReturn(c)

SpecDiscovery == InitDiscovery /\ [][NextDiscovery]_vars

(***************************************************************************)
(* Two sessions: a node on which each of AdvertiseConnect and              *)
(* AnnounceConnect is called at most once, in either order                 *)
(***************************************************************************)
NextSessions ==
    \/ AdvertiseOnce
    \/ AdvSleep
    \/ FindPeers
    \/ AdvCheck
    \/ GenerateCIDOnce
    \/ Provide
    \/ AnnSleep
    \/ FindProvidersAsync
    \/ StartConnector
    \/ \E ch \in 1..Len(chans) : \E p \in PeerIDs : SendFew(ch, p)
    \/ \E ch \in 1..Len(chans) : Close(ch)
    \/ \E c \in 1..Len(connectors) : Recv(c)
    \/ \E c \in 1..Len(connectors) : RangeEnd(c)
    \/ \E c \in 1..Len(connectors) : ConnectReturn(c)

SpecSessions == InitDiscovery /\ [][NextSessions]_vars

(***************************************************************************)
(* The life of a node: NewP2P with its Joiner pass, then one               *)
(* AdvertiseConnect session on the node it returned                        *)
(***************************************************************************)
NextLife ==
    \/ Next
    \/ AdvertiseOnce
    \/ AdvSleep
    \/ FindPeers
    \/ AdvCheck
    \/ StartConnector
    \/ \E ch \in 1..Len(chans) : \E p \in PeerIDs : SendFew(ch, p)
    \/ \E ch \in 1..Len(chans) : Close(ch)
    \/ \E c \in 1..Len(connectors) : Recv(c)
    \/ \E c \in 1..Len(connectors) : RangeEnd(c)
    \/ \E c \in 1..Len(connectors) : ConnectReturn(c)

SpecLife == Init /\ [][NextLife]_vars

(***************************************************************************)
(* Two sessions, with the root context ending at any moment                *)
(***************************************************************************)
NextCtx ==
    \/ NextSessions
    \/ CtxDone

SpecCtx == InitDiscovery /\ [][NextCtx]_vars

(***************************************************************************)
(* One connector: an AdvertiseConnect session whose goroutine is scheduled *)
(* whenever it can take an entry or leave its loop. Whether a connect      *)
(* returns and whether the sequence is closed is left open.                *)
(***************************************************************************)
NextConnector ==
    \/ AdvertiseOnce
    \/ AdvSleep
    \/ FindPeers
    \/ AdvCheck
    \/ StartConnector
    \/ \E ch \in 1..Len(chans) : \E p \in PeerIDs : Send(ch, p)
    \/ \E ch \in 1..Len(chans) : Close(ch)
    \/ \E c \in 1..Len(connectors) : Recv(c)
    \/ \E c \in 1..Len(connectors) : RangeEnd(c)
    \/ \E c \in 1..Len(connectors) : ConnectReturn(c)

\* the steps of the range loop that wait for nothing but the scheduler
LoopStep == \E c \in 1..Len(connectors) : Recv(c) \/ RangeEnd(c)

SpecConnector ==
    InitDiscovery /\ [][NextConnector]_vars /\ WF_vars(LoopStep)

(***************************************************************************)
(* setupHost for every bind IP and port                                    *)
(***************************************************************************)
InitHost ==
    /\ proc = "running" /\ cause = "none"
    /\ pc = "start"
    /\ steps = <<>>
    /\ node = "nil" /\ Host = "nil" /\ KadDHT = "nil"
    /\ Discovery = "nil" /\ PubSub = "nil"
    /\ bootPeers \in BootPeerSets
    /\ idx = 0 /\ wg = 0
    /\ connectedbootpeers = 0 /\ totalbootpeers = 0
    /\ task = [i \in 1..Len(bootPeers) |-> "none"]
    /\ reported = <<>>
    /\ err = "nil" /\ peerchan = 0
    /\ events = <<>> /\ chans = <<>> /\ connectors = <<>>
    /\ dialed = [i \in 1..Len(bootPeers) |-> 0]
    /\ Ctx = "live"
    /\ sha = ShaFixed /\ namestring = "" /\ cidvalue = NoCid
    /\ issued = <<>>
    /\ service = ServiceName /\ keys = <<>>
    /\ nodeHostIP \in IPs /\ nodeHostPort \in Ports
    /\ listen = <<>>
    /\ CollectorIdle /\ UnmarshalIdle

NextHost ==
    \/ GenerateKeyPair
    \/ NewConnManager
    \/ Libp2pNew
    \/ setupKadDHT
    \/ Libp2pNewRest

SpecHost == InitHost /\ [][NextHost]_vars

(***************************************************************************)
(* The keys of the discovery calls: a node constructed with any of the     *)
(* service names, over any digest table, on which each of                  *)
(* AdvertiseConnect and AnnounceConnect is called at most once             *)
(***************************************************************************)
InitKeys ==
    /\ proc = "running" /\ cause = "none"
    /\ pc = "idle"
    /\ steps = FullStartup
    /\ node = "P2P" /\ Host = "host" /\ KadDHT = "bootstrapped"
    /\ Discovery = "routing" /\ PubSub = "gossipsub"
    /\ bootPeers = <<>>
    /\ idx = 0 /\ wg = 0
    /\ connectedbootpeers = 0 /\ totalbootpeers = 0
    /\ task = <<>>
    /\ reported = <<0, 0>>
    /\ err = "nil" /\ peerchan = 0
    /\ events = <<>> /\ chans = <<>> /\ connectors = <<>>
    /\ dialed = <<>>
    /\ Ctx = "live"
    /\ sha \in ShaTables /\ namestring = "" /\ cidvalue = NoCid
    /\ issued = <<>>
    /\ service \in Names /\ keys = <<>>
    /\ nodeHostIP = BindIP /\ nodeHostPort = BindPort
    /\ listen = ListenAddrStrings(BindIP, BindPort)
    /\ CollectorIdle /\ UnmarshalIdle

NextKeys ==
    \/ AdvertiseOnce
    \/ AdvSleep
    \/ FindPeers
    \/ AdvCheck
    \/ GenerateCIDOnce
    \/ Provide
    \/ AnnSleep
    \/ FindProvidersAsync
    \/ StartConnector

SpecKeys == InitKeys /\ [][NextKeys]_vars

(***************************************************************************)
(* generateCID specification: a constructed node whose digest function is  *)
(* any table from the names to the digests                                 *)
(***************************************************************************)
InitCID ==
    /\ proc = "running" /\ cause = "none"
    /\ pc = "idle"
    /\ steps = FullStartup
    /\ node = "P2P" /\ Host = "host" /\ KadDHT = "bootstrapped"
    /\ Discovery = "routing" /\ PubSub = "gossipsub"
    /\ bootPeers = <<>>
    /\ idx = 0 /\ wg = 0
    /\ connectedbootpeers = 0 /\ totalbootpeers = 0
    /\ task = <<>>
    /\ reported = <<0, 0>>
    /\ err = "nil" /\ peerchan = 0
    /\ events = <<>> /\ chans = <<>> /\ connectors = <<>>
    /\ dialed = <<>>
    /\ Ctx = "live"
    /\ sha \in ShaTables /\ namestring = "" /\ cidvalue = NoCid
    /\ issued = <<>>
    /\ service = ServiceName /\ keys = <<>>
    /\ nodeHostIP = BindIP /\ nodeHostPort = BindPort
    /\ listen = ListenAddrStrings(BindIP, BindPort)
    /\ CollectorIdle /\ UnmarshalIdle

NextCID == \E n \in Names : CallGenerateCID(n)

SpecCID == InitCID /\ [][NextCID]_vars

(***************************************************************************)
(* Properties                                                              *)
(***************************************************************************)
Range(s) == {s[i] : i \in 1..Len(s)}

NotLocal(p) == p # LocalID

\* N and K of a bootstrap pass
Attempted == Len(bootPeers)
Reachable == CountOf(bootPeers, "ok")

\* the goroutine of bootPeers[i] has run to its end
TaskOver(i) == task[i] \in {"done", "panic.exit"}

\* bootstrapDHT is past wg.Wait()
PastWait == pc \in {"report", "NewRoutingDiscovery", "setupPubSub", "idle"}

\* what a connector has taken from its channel so far
Received(ch) ==
    SubSeq(chans[ch].delivered, 1, Len(chans[ch].delivered) - Len(chans[ch].buf))

Connectors == 1..Len(connectors)

\* C1: a bootstrap pass over N peers of which K accept the connection
\* reports attempted = N and succeeded = K, and it is not past its barrier
\* (so neither returns nor reports) before every connection task has ended.
C1_JoinerCounts ==
    /\ PastWait => \A i \in 1..Len(bootPeers) : TaskOver(i)
    /\ reported # <<>> => reported = <<Reachable, Attempted>>

C1_Witness ==
    /\ bootPeers = <<"ok", "down", "ok">>
    /\ reported = <<2, 3>>

\* C2: a bootstrap entry whose address info does not parse is skipped: no
\* goroutine dereferences its nil peerinfo, so nothing is attempted for it
\* and the process does not crash on it.
C2_MalformedSkipped ==
    /\ cause # "nil peerinfo"
    /\ \A i \in 1..Len(bootPeers) :
          bootPeers[i] = "bad" => task[i] \notin {"connecting", "panic.defer", "panic.exit"}

\* C3: no connector ever calls Connect on the local node's identifier.
C3_SelfFiltered ==
    \A c \in Connectors :
       /\ LocalID \notin Range(connectors[c].attempts)
       /\ connectors[c].cur # LocalID

C3_Witness ==
    \E c \in Connectors :
       /\ connectors[c].chan # 0
       /\ LocalID \in Range(Received(connectors[c].chan))
       /\ connectors[c].attempts # <<>>

\* the entries of a channel's buffer that will be attempted
Pending(ch) == Len(SelectSeq(chans[ch].buf, NotLocal))

\* what a connector still has to do once its channel is closed
Measure(cn, ch) ==
    2 * Len(ch.buf) + (IF cn.cpc = "connecting" THEN 1 ELSE 0)
                    + (IF cn.cpc = "done" THEN 0 ELSE 1)

\* C4 as stated: once the channel is closed its connector makes no further
\* connect attempt.
C4_NoAttemptAfterClose ==
    [][\A c \in Connectors :
          (connectors[c].chan # 0 /\ chans[connectors[c].chan].closed)
             => connectors'[c].attempts = connectors[c].attempts]_vars

\* C4 amended: once the channel is closed, its connector only drains what
\* was delivered before the closure: every further attempt takes a pending
\* entry out of the buffer, every step of the connector brings it nearer to
\* its end, it is never blocked before its end, and once ended it does
\* nothing more.
C4_ClosedDrainsThenStops ==
    /\ [](\A c \in Connectors :
             (connectors[c].chan # 0 /\ chans[connectors[c].chan].closed)
                => \/ connectors[c].cpc = "done"
                   \/ proc # "running"
                   \/ ENABLED (Recv(c) \/ RangeEnd(c) \/ ConnectReturn(c)))
    /\ [][\A c \in Connectors :
             LET ch == connectors[c].chan IN
             (ch # 0 /\ chans[ch].closed) =>
                /\ chans'[ch].closed
                /\ Len(connectors'[c].attempts) + Pending(ch)'
                      = Len(connectors[c].attempts) + Pending(ch)
                /\ connectors'[c] # connectors[c]
                      => Measure(connectors'[c], chans'[ch])
                            < Measure(connectors[c], chans[ch])
                /\ connectors[c].cpc = "done" => connectors'[c] = connectors[c]]_vars

C4_Witness ==
    \E c \in Connectors :
       /\ connectors[c].chan # 0
       /\ chans[connectors[c].chan].closed
       /\ chans[connectors[c].chan].buf = <<"p1">>
       /\ connectors[c].cpc = "recv"

\* C5: a failed Connect does not stop the connector: at every moment the
\* attempts made are exactly the non-self entries taken from the channel,
\* in order, and a connector that has ended has attempted every non-self
\* entry that was delivered.
C5_FailureDoesNotStop ==
    \A c \in Connectors :
       connectors[c].chan # 0 =>
          /\ connectors[c].attempts
                = SelectSeq(Received(connectors[c].chan), NotLocal)
          /\ connectors[c].cpc = "done"
                => connectors[c].attempts
                      = SelectSeq(chans[connectors[c].chan].delivered, NotLocal)

C5_Witness ==
    \E c \in Connectors :
       /\ connectors[c].attempts = <<"p1", "p2">>
       /\ connectors[c].log # <<>>
       /\ connectors[c].log[1] = <<"failed", "p1">>

\* C6: with no bootstrap peer the barrier is open as soon as it is reached,
\* and the pass reports 0 attempted and 0 succeeded.
C6_EmptyBootstrapSet ==
    bootPeers = <<>> =>
       /\ (proc = "running" /\ pc = "wait") => ENABLED Wait
       /\ reported # <<>> => reported = <<0, 0>>

C6_Witness ==
    /\ bootPeers = <<>>
    /\ reported = <<0, 0>>

\* C7: kaddht.Bootstrap is called at most once, has succeeded before any
\* connection task exists, was called exactly once when the pass reports,
\* and its failure ends the process with no task started.
C7_BootstrapFirst ==
    /\ CountOf(steps, "Bootstrap") <= 1
    /\ (idx > 0 \/ \E i \in 1..Len(bootPeers) : task[i] # "none")
          => CountOf(steps, "Bootstrap") = 1 /\ KadDHT = "bootstrapped"
    /\ reported # <<>> => CountOf(steps, "Bootstrap") = 1
    /\ err = "Bootstrap"
          => /\ proc = "exited"
             /\ idx = 0
             /\ \A i \in 1..Len(bootPeers) : task[i] = "none"

C7_Witness ==
    /\ KadDHT = "bootstrapped"
    /\ \E i \in 1..Len(bootPeers) : task[i] = "connecting"

\* the library calls of NewP2P whose failure is fatal
FatalSteps ==
    {"GenerateKeyPair", "NewConnManager", "libp2p.New", "dht.New",
     "Bootstrap", "NewGossipSub"}

\* C8: when a fatal-tier step of NewP2P fails, the process is over, no node
\* was returned, the failing step ran once and no step ran after it.
C8_FatalStartup ==
    err \in FatalSteps =>
       /\ proc # "running"
       /\ cause = err
       /\ node = "nil"
       /\ steps # <<>>
       /\ steps[Len(steps)] = err
       /\ CountOf(steps, err) = 1

C8_Witness ==
    /\ err = "NewGossipSub"
    /\ proc = "exited"
    /\ Len(steps) = Len(FullStartup)

\* C9: when FindPeers fails, the failure is logged and ends the process at
\* the error check, and the failing call starts no connector.
C9_FindPeersFatal ==
    /\ err = "FindPeers" =>
          /\ pc = "adv.check"
          /\ proc = "running" \/
                (/\ proc = "exited" /\ cause = "FindPeers"
                 /\ events[Len(events)] = "log:P2P Peer Discovery Failed!")
          /\ Len(connectors) < CountCalls(events)
    /\ \A c \in Connectors : connectors[c].chan # 0

C9_Witness ==
    /\ cause = "FindPeers"
    /\ proc = "exited"

\* C10: when Provide fails, the process ends there: no settling delay, no
\* provider query and no connector follow in that call.
C10_ProvideFatal ==
    err = "Provide" =>
       /\ proc = "exited" /\ cause = "Provide"
       /\ pc = "ann.provide"
       /\ events[Len(events)] = "log:Failed to Announce Service CID!"
       /\ Len(chans) < CountCalls(events)
       /\ Len(connectors) < CountCalls(events)

C10_Witness ==
    /\ cause = "Provide"
    /\ proc = "exited"

\* the library calls and goroutine starts among the events, in order
IsCall(e) ==
    e \in {"Advertise", "generateCID", "Provide", "Sleep", "FindPeers",
           "FindProvidersAsync", "go"}
Calls == SelectSeq(events, IsCall)

\* C11: a failed Advertise neither ends the process nor the call. While
\* its error is held the call sleeps and then queries FindPeers, whose result
\* replaces the error; a call with a FindPeers result starts the connector
\* and returns.
C11_AdvertiseFailureIgnored ==
    /\ [](err = "Advertise" =>
             /\ proc = "running"
             /\ pc \in {"adv.sleep", "adv.find"}
             /\ events[Len(events)] \in {"log:Advertised the p2p Service.",
                                         TimeToLiveLine})
    /\ [][/\ (err = "Advertise" /\ pc' # pc) =>
                \/ /\ pc = "adv.sleep" /\ pc' = "adv.find"
                   /\ err' = err
                   /\ events' = events \o <<"Sleep", TimeToLiveLine>>
                \/ /\ pc = "adv.find" /\ pc' = "adv.check"
                   /\ err' \in {"nil", "FindPeers"}
                   /\ events' = Append(events, "FindPeers")
          /\ (pc = "adv.check" /\ err = "nil" /\ pc' # pc) =>
                pc' = "adv.go" /\ proc' = "running"
          /\ (pc = "adv.go" /\ pc' # pc) =>
                /\ pc' = "idle" /\ proc' = "running"
                /\ connectors' = Append(connectors, NewConnector(peerchan))
                /\ peerchan = Len(chans)
       ]_vars

C11_Witness ==
    /\ err = "Advertise"
    /\ pc = "adv.find" /\ proc = "running"
    /\ events[Len(events) - 1] = "Sleep"

\* C12: when Advertise fails, a line other than the one a successful
\* Advertise writes is logged before the call goes on.
C12_AdvertiseFailureLogged ==
    (err = "Advertise" /\ pc = "adv.sleep") =>
        events[Len(events)] # "log:Advertised the p2p Service."

\* C13: in both discovery calls the announcement returns, then the settling
\* delay elapses, then the query is issued, and the connector is started
\* only after the query returned its sequence.
C13_DiscoveryOrder ==
    LET calls == Calls IN
    /\ \A i \in 1..Len(calls) :
          /\ calls[i] \in {"Advertise", "generateCID"} =>
                i = 1 \/ calls[i - 1] = "go"
          /\ calls[i] = "Provide" => i > 1 /\ calls[i - 1] = "generateCID"
          /\ calls[i] = "Sleep" =>
                i > 1 /\ calls[i - 1] \in {"Advertise", "Provide"}
          /\ calls[i] = "FindPeers" =>
                i > 2 /\ calls[i - 1] = "Sleep" /\ calls[i - 2] = "Advertise"
          /\ calls[i] = "FindProvidersAsync" =>
                i > 2 /\ calls[i - 1] = "Sleep" /\ calls[i - 2] = "Provide"
          /\ calls[i] = "go" =>
                i > 1 /\ calls[i - 1] \in {"FindPeers", "FindProvidersAsync"}
    /\ Len(connectors) = Len(SelectSeq(calls, LAMBDA e : e = "go"))
    /\ Len(connectors) <= Len(chans)
    /\ \A c \in Connectors : connectors[c].chan \in 1..Len(chans)
    /\ pc \in {"adv.go", "ann.go"} => peerchan = Len(chans)

C13_Witness ==
    /\ Calls = <<"generateCID", "Provide", "Sleep", "FindProvidersAsync", "go">>
    /\ Len(connectors) = 1

\* C16: two names of the tested set whose digests differ get different
\* identifiers: the tags, the base58 round trip and the CID constructor keep
\* the digests apart.
C16_DistinctNames ==
    \A i, j \in 1..Len(issued) :
        /\ issued[i][1] # issued[j][1]
        /\ sha[issued[i][1]] # sha[issued[j][1]]
        => issued[i][2] # issued[j][2]

C16_Witness ==
    /\ Len(issued) = 2
    /\ issued[1][1] # issued[2][1]
    /\ sha[issued[1][1]] # sha[issued[2][1]]
    /\ issued[1][2] # issued[2][2]

\* C17: for every name, the empty one included, generateCID returns an
\* identifier, never takes its fatal branch and leaves the node as it was.
C17_GenerateCIDTotal ==
    /\ proc = "running" /\ cause = "none"
    /\ Len(issued) = Len(events)
    /\ \A i \in 1..Len(issued) :
          /\ issued[i][2] # NoCid
          /\ issued[i][2].hash = <<Sha2_256, DigestLength>> \o sha[issued[i][1]]
    /\ events # <<>> =>
          cidvalue = issued[Len(issued)][2] /\ namestring = issued[Len(issued)][1]
    /\ node = "P2P" /\ Host = "host" /\ KadDHT = "bootstrapped"
    /\ Discovery = "routing" /\ PubSub = "gossipsub"
    /\ pc = "idle" /\ err = "nil"
    /\ chans = <<>> /\ connectors = <<>>

C17_Witness ==
    /\ \E i \in 1..Len(issued) : issued[i][1] = ""
    /\ namestring # ""
    /\ cidvalue # NoCid

\* a connector has left its loop: only a closed and drained sequence lets it
Terminated(c) == connectors[c].cpc = "done"

\* C18: the end of the root context ends no connector and no connect in
\* flight. A connector leaves its loop only on a closed, drained sequence; a
\* connect in flight ends only by returning to the loop with its outcome
\* logged; the step that ends the context changes no connector.
C18_ConnectorOutlivesCtx ==
    /\ [](\A c \in Connectors :
             /\ Terminated(c) =>
                   /\ chans[connectors[c].chan].closed
                   /\ chans[connectors[c].chan].buf = <<>>
             /\ connectors[c].attempts =
                   SelectSeq(Received(connectors[c].chan), NotLocal))
    /\ [][/\ Ctx' # Ctx => connectors' = connectors /\ chans' = chans
          /\ \A c \in Connectors :
                (connectors[c].cpc = "connecting" /\ connectors'[c] # connectors[c]) =>
                   /\ connectors'[c].cpc = "recv"
                   /\ Len(connectors'[c].log) > Len(connectors[c].log)
                   /\ connectors'[c].log[Len(connectors'[c].log)] =
                         <<"success", connectors[c].cur>>
       ]_vars

C18_Witness ==
    /\ Ctx = "done"
    /\ \E c \in Connectors :
          /\ connectors[c].cpc = "connecting"
          /\ ~chans[connectors[c].chan].closed

\* the connectors a step changes, and the channels it changes
ChangedConnectors == {c \in Connectors : connectors'[c] # connectors[c]}
ChangedChans == {ch \in 1..Len(chans) : chans'[ch] # chans[ch]}

\* C19: every call that gets its sequence starts exactly one new connector
\* on it and returns at once; the connectors are independent: each has its
\* own sequence, attempts every entry of it whatever the others do, can
\* always take a buffered entry, and a step of one connector or a closure of
\* one sequence touches no other connector.
C19_IndependentConnectors ==
    /\ [](/\ Len(connectors) = Len(SelectSeq(events, LAMBDA e : e = "go"))
          /\ \A c, d \in Connectors :
                c # d => connectors[c].chan # connectors[d].chan
          /\ \A c \in Connectors :
                /\ connectors[c].chan \in 1..Len(chans)
                /\ connectors[c].attempts =
                      SelectSeq(Received(connectors[c].chan), NotLocal)
                /\ Terminated(c) => chans[connectors[c].chan].closed
                /\ (/\ proc = "running"
                    /\ connectors[c].cpc = "recv"
                    /\ chans[connectors[c].chan].buf # <<>>) => ENABLED Recv(c))
    /\ [][/\ Len(connectors') # Len(connectors) =>
                /\ pc \in {"adv.go", "ann.go"} /\ pc' = "idle"
                /\ connectors' = Append(connectors, NewConnector(Len(chans)))
                /\ chans' = chans
          /\ Len(connectors') = Len(connectors) =>
                /\ Cardinality(ChangedConnectors) <= 1
                /\ \A c \in ChangedConnectors :
                      /\ ChangedChans \subseteq {connectors[c].chan}
                      /\ pc' = pc
          /\ \A ch \in 1..Len(chans) :
                (chans'[ch].closed /\ ~chans[ch].closed) =>
                   connectors' = connectors
       ]_vars

C19_Witness ==
    /\ pc = "idle"
    /\ Len(connectors) = 2
    /\ connectors[1].cpc = "connecting" /\ connectors[2].cpc = "connecting"
    /\ connectors[1].cur = connectors[2].cur
    /\ ~chans[1].closed /\ ~chans[2].closed

\* the bootstrap entries whose address parses
WellFormed(i) == AddrInfoFromP2pAddr(bootPeers[i]) # "nil"

\* the goroutine of entry i is past its nodehost.Connect call
Dialing(i) == task[i] \in {"connecting", "inc", "defer", "done"}

\* every entry a connector received was dialed at most once
AtMostOnce(c) ==
    /\ \A p \in PeerIDs :
          CountOf(connectors[c].attempts, p)
             <= CountOf(Received(connectors[c].chan), p)
    /\ Len(connectors[c].attempts) <= Len(Received(connectors[c].chan))
    /\ \A p \in PeerIDs :
          CountOf(connectors[c].log, <<"failed", p>>)
             <= CountOf(connectors[c].attempts, p)

AllWellFormed == \A i \in 1..Len(bootPeers) : WellFormed(i)

\* bootstrapDHT is between its Bootstrap call and its return
InJoiner == pc \in {"loop", "wait", "report"}

\* C21: a failed connect to a bootstrap peer ends nothing. With well-formed
\* entries the process runs all through the pass, a started goroutine can
\* dial whatever the other goroutines do, the pass reports the peers that
\* answered, and the pass always returns to the construction of the
\* discovery handle, also when no peer answered.
C21_ConnectFailureRecoverable ==
    /\ [](AllWellFormed =>
             /\ InJoiner => proc = "running"
             /\ cause \notin {"Connect", "nil peerinfo"}
             /\ \A i \in 1..Len(bootPeers) :
                   (task[i] = "spawned" /\ proc = "running")
                      => ENABLED TaskConnect(i)
             /\ reported # <<>> => reported = <<Reachable, Attempted>>)
    /\ (AllWellFormed /\ pc = "loop") ~> (pc = "NewRoutingDiscovery")

C21_Witness ==
    /\ pc = "NewRoutingDiscovery" /\ proc = "running"
    /\ Len(bootPeers) = MaxBootPeers
    /\ \A i \in 1..Len(bootPeers) : bootPeers[i] = "down"
    /\ reported = <<0, MaxBootPeers>>

\* a goroutine that has been started and has not called wg.Done()
Unfinished(i) ==
    task[i] \in {"spawned", "connecting", "inc", "defer", "panic.defer"}

\* C22: the Joiner has no timeout. While a dial has not resolved, wg.Wait()
\* cannot return, however many other goroutines are done; when every dial
\* resolves, the pass gets past wg.Wait() or the process has ended.
C22_NoTimeout ==
    /\ []((\E i \in 1..Len(bootPeers) : Unfinished(i)) =>
             /\ ~PastWait
             /\ ~ENABLED Wait)
    /\ (pc = "loop") ~> (PastWait \/ proc # "running")

C22_Witness ==
    /\ pc = "wait" /\ proc = "running"
    /\ Len(bootPeers) = MaxBootPeers
    /\ task[1] = "connecting"
    /\ \A i \in 2..Len(bootPeers) : task[i] = "done"

\* C23: a success is reported only for a connect that succeeded: no
\* connector log holds the failure of a connect followed by the success line
\* of that same connect.
C23_FaithfulOutcome ==
    \A c \in Connectors :
       \A k \in 1..(Len(connectors[c].log) - 1) :
          ~(/\ connectors[c].log[k][1] = "failed"
            /\ connectors[c].log[k + 1] = <<"success", connectors[c].log[k][2]>>)

\* the channels a step closes
NewlyClosed == {ch \in 1..Len(chans) : chans'[ch].closed /\ ~chans[ch].closed}

\* C24: the provider query is issued without a maximum, so no number of
\* delivered peers ends the sequence: an open sequence with room can always
\* deliver one more, the step that closes a sequence is never a delivery,
\* and a connector ends only on a closed sequence.
C24_NoCountLimit ==
    /\ [](/\ \A ch \in 1..Len(chans) :
                /\ chans[ch].count = Unlimited
                /\ (/\ proc = "running"
                    /\ ~chans[ch].closed
                    /\ Len(chans[ch].buf) < ChanCap)
                   => \A p \in PeerIDs : ENABLED Deliver(ch, p)
          /\ \A c \in Connectors :
                Terminated(c) => chans[connectors[c].chan].closed)
    /\ [][\A ch \in NewlyClosed :
             /\ chans'[ch].delivered = chans[ch].delivered
             /\ chans'[ch].buf = chans[ch].buf
             /\ connectors' = connectors]_vars

C24_Witness ==
    /\ \A i \in 1..Len(events) : events[i] # "Advertise"
    /\ Len(chans) = 1 /\ Len(connectors) = 1
    /\ Len(chans[1].delivered) = MaxDelivered - 1
    /\ ~chans[1].closed
    /\ connectors[1].cpc = "connecting"
    /\ Len(connectors[1].attempts) = MaxDelivered - 1

\* the fields of the P2P struct as NewP2P returned them
Constructed ==
    /\ node = "P2P"
    /\ service = ServiceName
    /\ Ctx = "live"
    /\ Host = "host"
    /\ KadDHT = "bootstrapped"
    /\ Discovery = "routing"
    /\ PubSub = "gossipsub"

\* C25: the node is read-only after construction: whatever AdvertiseConnect,
\* AnnounceConnect and the connectors they start have done, in any
\* interleaving, the service name, the root context and the host, routing
\* table, discovery and publish/subscribe handles are the ones NewP2P
\* returned.
C25_NodeReadOnly == Constructed

C25_Witness ==
    /\ Len(keys) = 4
    /\ Len(connectors) = 2
    /\ \A c \in Connectors : connectors[c].attempts # <<>>
    /\ \E c \in Connectors : connectors[c].cpc = "connecting"
    /\ pc = "idle"

\* the keys recorded for the given calls
KeysOf(calls) == {i \in 1..Len(keys) : keys[i].call \in calls}

\* C30: within a discovery invocation the announce and the query use one
\* key: Advertise and FindPeers are passed the node's service name, and
\* Provide and FindProvidersAsync are passed the one identifier that
\* generateCID derived from that name, so the keys are a function of the
\* service name the node was constructed with.
C30_SameKey ==
    /\ \A i \in KeysOf({"Advertise", "FindPeers"}) :
           keys[i] = Rendezvous(keys[i].call, service)
    /\ KeysOf({"Provide", "FindProvidersAsync"}) # {} =>
           LET id == generateCID(service)
           IN  /\ ~id.fatal
               /\ issued = <<<<service, id.cid>>>>
               /\ \A i \in KeysOf({"Provide", "FindProvidersAsync"}) :
                      keys[i] = Provider(keys[i].call, id.cid)

C30_Witness ==
    /\ service = "b"
    /\ sha["b"] # sha[""] /\ sha["b"] # sha["a"]
    /\ Len(keys) = 4
    /\ \A call \in {"Advertise", "FindPeers", "Provide", "FindProvidersAsync"} :
           KeysOf({call}) # {}
    /\ cidvalue # NoCid
    /\ pc = "idle"

\* the ports as they are written in a multiaddress
PortText ==
    [p \in Ports |-> CASE p = -1 -> "-1"
                      [] p = 0 -> "0"
                      [] p = 80 -> "80"
                      [] p = 4001 -> "4001"]

\* C26: for every bind IP and port the endpoint is asked to listen on
\* exactly two addresses, /ip4/<ip>/tcp/<port> and
\* /ip4/<ip>/udp/<port>/quic-v1, built from that IP and that port; no
\* endpoint exists that was not asked for both.
C26_ListenAddresses ==
    /\ \/ listen = <<>>
       \/ listen = <<"/ip4/" \o nodeHostIP \o "/tcp/" \o PortText[nodeHostPort],
                     "/ip4/" \o nodeHostIP \o "/udp/" \o PortText[nodeHostPort]
                         \o "/quic-v1">>
    /\ (Host = "host" \/ KadDHT # "nil" \/ "libp2p.New" \in Range(steps))
          => listen # <<>>

C26_Witness ==
    /\ Host = "host"
    /\ nodeHostIP = "127.0.0.1" /\ nodeHostPort = 80
    /\ listen = <<"/ip4/127.0.0.1/tcp/80", "/ip4/127.0.0.1/udp/80/quic-v1">>

\* the goroutines whose nodehost.Connect has returned nil
Succeeded ==
    {i \in 1..Len(bootPeers) :
        bootPeers[i] = "ok" /\ task[i] \in {"inc", "defer", "done"}}

\* the goroutines that are past their atomic.AddInt32
Counted ==
    {i \in 1..Len(bootPeers) :
        bootPeers[i] = "ok" /\ task[i] \in {"defer", "done"}}

\* the goroutines a step moves
Moved == {i \in 1..Len(bootPeers) : task'[i] # task[i]}

\* C27: during a Joiner pass the success counter is the number of
\* goroutines past their increment, which is at most the number of connects
\* that succeeded, which is at most the attempted counter; the success
\* counter changes only by one, in the step of a goroutine whose own connect
\* succeeded, once per goroutine; the attempted counter changes only in the
\* loop that spawns, by one per goroutine started, in a step that moves no
\* running goroutine; and the counters are read for the report only when no
\* goroutine is left.
C27_Counters ==
    /\ [](/\ connectedbootpeers = Cardinality(Counted)
          /\ Cardinality(Counted) <= Cardinality(Succeeded)
          /\ Cardinality(Succeeded) <= totalbootpeers
          /\ totalbootpeers = idx
          /\ totalbootpeers <= Attempted)
    /\ [][/\ connectedbootpeers' # connectedbootpeers =>
                /\ connectedbootpeers' = connectedbootpeers + 1
                /\ totalbootpeers' = totalbootpeers
                /\ \E i \in 1..Len(bootPeers) :
                      /\ Moved = {i}
                      /\ bootPeers[i] = "ok"
                      /\ task[i] = "inc" /\ task'[i] = "defer"
          /\ totalbootpeers' # totalbootpeers =>
                /\ pc = "loop" /\ pc' = "loop"
                /\ totalbootpeers' = totalbootpeers + 1
                /\ connectedbootpeers' = connectedbootpeers
                /\ Moved = {idx + 1}
                /\ task[idx + 1] = "none" /\ task'[idx + 1] = "spawned"
          /\ Moved # {} =>
                \/ totalbootpeers' = totalbootpeers
                \/ Moved = {idx + 1}
          /\ reported' # reported =>
                /\ \A i \in 1..Len(bootPeers) : ~Unfinished(i)
                /\ reported' = <<connectedbootpeers, totalbootpeers>>]_vars

C27_Witness ==
    /\ pc = "loop"
    /\ totalbootpeers = 3
    /\ connectedbootpeers = 1
    /\ Cardinality(Succeeded) = 2
    /\ \E i \in 1..Len(bootPeers) : task[i] = "inc"
    /\ \E i \in 1..Len(bootPeers) : task[i] = "connecting"

\* the startup steps that succeeded are the first steps of a full startup
StartupPrefix ==
    LET done == IF err \in FatalSteps
                THEN SubSeq(steps, 1, Len(steps) - 1) ELSE steps
    IN  \E n \in 0..Len(FullStartup) : done = SubSeq(FullStartup, 1, n)

\* the step has returned
Ran(step) == step \in Range(steps)

\* C28: the startup runs its phases in one order and returns a node only
\* after all of them. The routing table is created inside the construction
\* of the endpoint, so an endpoint never exists without it; the Joiner
\* starts after both and has returned, with every goroutine ended, before
\* the discovery handle is created from the bootstrapped routing table; the
\* publish/subscribe handler comes after the discovery handle, and the node
\* after everything.
C28_StartupOrder ==
    /\ StartupPrefix
    /\ KadDHT # "nil" <=> (Ran("dht.New") /\ err # "dht.New")
    /\ Host = "host" <=> (Ran("libp2p.New") /\ err # "libp2p.New")
    /\ Host = "host" => KadDHT # "nil"
    /\ (idx > 0 \/ InJoiner \/ Ran("Bootstrap"))
          => Host = "host" /\ KadDHT # "nil"
    /\ Ran("bootstrapDHT") =>
          /\ KadDHT = "bootstrapped"
          /\ idx = Len(bootPeers) /\ wg = 0
          /\ \A i \in 1..Len(bootPeers) : TaskOver(i)
          /\ reported # <<>>
    /\ Discovery = "routing" <=> Ran("NewRoutingDiscovery")
    /\ Discovery = "routing" => Ran("bootstrapDHT")
    /\ PubSub = "gossipsub" => Discovery = "routing"
    /\ PubSub = "gossipsub" <=> (Ran("NewGossipSub") /\ err # "NewGossipSub")
    /\ node = "P2P" <=> PubSub = "gossipsub"
    /\ node = "P2P" =>
          /\ steps = FullStartup
          /\ Host = "host" /\ KadDHT = "bootstrapped"
          /\ pc = "idle"

C28_Witness ==
    /\ node = "P2P"
    /\ bootPeers = <<"ok", "down">>
    /\ reported = <<1, 2>>
    /\ proc = "running"

\* the connects of a connector that have returned: each return logs one
\* success line
Resolved(c) ==
    SelectSeq(connectors[c].log, LAMBDA l : l[1] = "success")

\* the connects of a connector that have been called and have not returned
InFlight(c) == Len(connectors[c].attempts) - Len(Resolved(c))

\* the connector of the session exists
Started == Len(connectors) = 1

\* C29: a connector works through its sequence one entry at a time. It has
\* at most one connect in flight; it calls connect for the non-self entries
\* in the order of delivery and the connects return in that order; it takes
\* an entry only when no connect is in flight, and while one is in flight
\* it can neither take an entry nor leave its loop. If every connect
\* returns and the sequence is closed, the connector ends, having attempted
\* every delivered non-self entry.
C29_Sequential ==
    /\ [](\A c \in Connectors :
             LET ch == connectors[c].chan IN
             /\ InFlight(c) \in {0, 1}
             /\ InFlight(c) = 1 <=> connectors[c].cpc = "connecting"
             /\ connectors[c].attempts = SelectSeq(Received(ch), NotLocal)
             /\ \A k \in 1..Len(Resolved(c)) :
                   Resolved(c)[k][2] = connectors[c].attempts[k]
             /\ connectors[c].cpc = "connecting" =>
                   /\ connectors[c].cur =
                         connectors[c].attempts[Len(connectors[c].attempts)]
                   /\ ~ENABLED Recv(c)
                   /\ ~ENABLED RangeEnd(c)
             /\ Terminated(c) =>
                   /\ InFlight(c) = 0
                   /\ chans[ch].closed
                   /\ connectors[c].attempts =
                         SelectSeq(chans[ch].delivered, NotLocal))
    /\ [][\A c \in Connectors :
             LET ch == connectors[c].chan IN
             /\ connectors'[c].attempts # connectors[c].attempts =>
                   /\ InFlight(c) = 0
                   /\ chans[ch].buf # <<>>
                   /\ connectors'[c].attempts =
                         Append(connectors[c].attempts, Head(chans[ch].buf))
                   /\ chans'[ch].buf = Tail(chans[ch].buf)
             /\ Len(chans'[ch].buf) < Len(chans[ch].buf) => InFlight(c) = 0
             /\ (~Terminated(c) /\ Terminated(c)') => InFlight(c) = 0]_vars
    /\ (/\ []<>(~Started \/ connectors[1].cpc # "connecting")
        /\ <>(Started /\ chans[connectors[1].chan].closed))
          => <>(/\ Started
                /\ Terminated(1)
                /\ connectors[1].attempts =
                      SelectSeq(chans[connectors[1].chan].delivered, NotLocal))

C29_Witness ==
    /\ Started
    /\ connectors[1].cpc = "connecting"
    /\ Len(connectors[1].attempts) = 2
    /\ Len(Resolved(1)) = 1
    /\ chans[1].buf # <<>>
    /\ chans[1].closed

\* C31: for every service name the identifier generateCID returns is a
\* version-1 identifier with codec 12 whose multihash is the byte 0x12, the
\* byte 0x20 and the 32 bytes of the digest of that name, and the base58
\* text of the tagged digest decodes to the tagged digest itself.
C31_TaggedDigest ==
    /\ \A i \in 1..Len(issued) :
          LET id == issued[i][2]
              digest == sha[issued[i][1]]
          IN  /\ id.version = 1
              /\ id.codec = 12
              /\ Len(id.hash) = 34
              /\ id.hash[1] = 18 /\ id.hash[2] = 32
              /\ Len(digest) = 32
              /\ \A k \in 1..32 : id.hash[k + 2] = digest[k]
    /\ \A n \in Names :
          LET finalhash == <<18, 32>> \o sha[n]
              back == Decode(Encode(finalhash))
          IN  back.err = "nil" /\ back.bin = finalhash
    /\ Len(issued) = Len(events)

C31_Witness ==
    /\ Len(issued) = 2
    /\ sha[issued[1][1]] = Digest(1)
    /\ sha[issued[2][1]] = Digest(3)
    /\ cidvalue = [version |-> 1, codec |-> 12, hash |-> <<18, 32>> \o Digest(3)]


\* the callers whose Collecting has not been matched by a Done of the counter
Unmatched == {t \in Tasks : callers[t].at \in {"collecting", "lock", "write", "done"}}

\* the ids Collect has been called with
CollectedIDs ==
    {callers[t].id : t \in {u \in Tasks : callers[u].at \in
                               {"lock", "write", "done", "unlock", "collected"}}}

\* the stats of the last write made under id
LastWrite(id) ==
    LET at == {i \in 1..Len(writes) : writes[i][1] = id}
        last == CHOOSE i \in at : \A j \in at : j <= i
    IN  writes[last][2]

\* C32: the counter of the collector is the number of Collecting calls not yet
\* matched by a Collect or a Done; Ready gets past its Wait only while no call
\* is unmatched, so it stays blocked for as long as one is; and the report
\* Ready returns has exactly the ids Collect was called with, each with the
\* stats of the last write made under it.
C32_WaitForAll ==
    /\ collectingGroup = Cardinality(Unmatched)
    /\ readyPc \in {"lock", "return", "returned"} => Unmatched = {}
    /\ (readyPc = "wait" /\ Unmatched # {}) => ~ENABLED ReadyWait
    /\ returned.done =>
          /\ DOMAIN returned.report = CollectedIDs
          /\ DOMAIN returned.report = {writes[i][1] : i \in 1..Len(writes)}
          /\ \A id \in DOMAIN returned.report : returned.report[id] = LastWrite(id)
    /\ mux = "Collect" <=> \E t \in Tasks : callers[t].at \in {"write", "done", "unlock"}
    /\ mux = "Ready" <=> readyPc = "return"

C32_Witness ==
    /\ returned.done
    /\ callers[1] = [at |-> "collected", id |-> "x"]
    /\ callers[2] = [at |-> "collected", id |-> "x"]
    /\ callers[3].at = "finished"
    /\ writes = <<<<"x", 2>>, <<"x", 1>>>>
    /\ returned.report = [i \in {"x"} |-> 1]


\* the record that belongs to a type that is not discriminated by kind
Belongs(type) ==
    CASE type = "codec" -> "CodecStats"
      [] type = "inbound-rtp" -> "InboundRTPStreamStats"
      [] type = "outbound-rtp" -> "OutboundRTPStreamStats"
      [] type = "remote-inbound-rtp" -> "RemoteInboundRTPStreamStats"
      [] type = "remote-outbound-rtp" -> "RemoteOutboundRTPStreamStats"
      [] type = "csrc" -> "RTPContributingSourceStats"
      [] type = "media-playout" -> "AudioPlayoutStats"
      [] type = "peer-connection" -> "PeerConnectionStats"
      [] type = "data-channel" -> "DataChannelStats"
      [] type = "stream" -> "MediaStreamStats"
      [] type = "transport" -> "TransportStats"
      [] type = "candidate-pair" -> "ICECandidatePairStats"
      [] type = "local-candidate" -> "ICECandidateStats"
      [] type = "remote-candidate" -> "ICECandidateStats"
      [] type = "certificate" -> "CertificateStats"
      [] type = "sctp-transport" -> "SCTPTransportStats"

KindTypes == {"media-source", "sender", "track", "receiver"}

\* the audio and the video record of a kind-discriminated type
Variant(type, kind) ==
    CASE type = "media-source" ->
            IF kind = "audio" THEN "AudioSourceStats" ELSE "VideoSourceStats"
      [] type = "sender" ->
            IF kind = "audio" THEN "AudioSenderStats" ELSE "VideoSenderStats"
      [] type = "track" ->
            IF kind = "audio" THEN "SenderAudioTrackAttachmentStats"
                              ELSE "SenderVideoTrackAttachmentStats"
      [] type = "receiver" ->
            IF kind = "audio" THEN "AudioReceiverStats" ELSE "VideoReceiverStats"

\* the text is a well-formed object whose type is a string
Tagged == b.syntax = "ok" /\ b.typeIs = "string"

\* every member of the text fits the record it is decoded into
Decodable == Tagged /\ b.kindIs = "string" /\ b.body = "ok"

UnknownType(e) == e.wraps = "ErrUnknownType"

\* C33: once UnmarshalStatsJSON has returned, a decodable text of a known
\* type that is not discriminated by kind gave the record of that type and no
\* error (ICECandidateStats for local-candidate and for remote-candidate); a
\* decodable text of type media-source, sender, track or receiver with kind
\* audio or video gave the audio or the video record of that type and no
\* error; a text whose type is no known type or is missing, and a text of a
\* kind-discriminated type whose kind is neither audio nor video, gave nil and
\* an error wrapping ErrUnknownType.
C33_Dispatch ==
    ret # NoResult =>
        /\ (Decodable /\ b.type \in KnownTypes \ KindTypes) =>
              ret = [stats |-> Belongs(b.type), zero |-> FALSE, err |-> NilError]
        /\ (Decodable /\ b.type \in KindTypes /\ b.kind \in {"audio", "video"}) =>
              ret = [stats |-> Variant(b.type, b.kind), zero |-> FALSE, err |-> NilError]
        /\ (Tagged /\ b.type \notin KnownTypes) =>
              ret.stats = "nil" /\ UnknownType(ret.err) /\ ret.err.msg = "type"
        /\ (Tagged /\ b.type \in KindTypes /\ b.kindIs = "string"
                   /\ b.kind \notin {"audio", "video"}) =>
              ret.stats = "nil" /\ UnknownType(ret.err) /\ ret.err.msg = "kind"
        /\ UnknownType(ret.err) => ret.stats = "nil"
        /\ ret.err = NilError <=> ~ret.zero /\ ret.stats # "nil"

C33_Witness ==
    /\ b = [syntax |-> "ok", typeIs |-> "string", type |-> "remote-candidate",
            kindIs |-> "string", kind |-> "", body |-> "ok"]
    /\ ret = [stats |-> "ICECandidateStats", zero |-> FALSE, err |-> NilError]

====
